---- MODULE Spec2Model ----
(***************************************************************************)
(* Event ingestion and commitment lifecycle of parket-integrations:        *)
(* the webhook idempotency guard (services/webhook-guard), the SLA monitor *)
(* (services/sla-monitor), the escalation chain (services/escalation),    *)
(* the follow-up sequences, lead ingestion with its scoring and merge      *)
(* (services/lead-ingestion, services/lead-scoring) and the control-tower  *)
(* event receiver (cloudrun-receiver/routes/events).                       *)
(* Time is counted in whole minutes.                                       *)
(***************************************************************************)
EXTENDS Integers, Sequences, FiniteSets, TLC

\* ------------------------------------------------------------------ bounds
MaxKey == 2          \* idempotency keys the handlers may carry
MaxCalls == 4        \* isNewWebhookEvent calls made in one run
MaxSla == 1          \* rows the sla_events table may hold
MaxTime == 35        \* the clock stops advancing after this minute
TickMin == 5         \* minutes the clock advances in one step
MaxBreachCycles == 2 \* checkSlaBreaches cycles started in one run
MaxEscCycles == 3    \* runEscalationCheck cycles started in one run
MaxOverlapCycles == 2 \* of them, cycles started where cycles may overlap
MaxCompletionCycles == 1 \* cycles started where leads complete commitments meanwhile
MaxCommit == 3       \* rows sla_events may hold where startSla is called freely
CommitHorizon == 5   \* last minute the clock reaches there
MaxExec == 2         \* rows follow_up_executions may hold
MaxFollowCycles == 2 \* processDueFollowUps cycles started in one run
FollowHorizon == 15  \* last minute the clock reaches while sequences run
MaxIntakeCalls == 2  \* webhook deliveries where handlers run ingestLead

\* --------------------------------------------------------------- constants
NULL == -1
EscSlackAfterMin == 15
EscCriticalAfterMin == 30

Keys == 1..MaxKey
Handlers == {"h1", "h2"}
Leads == {"lead1"}
SlaTypes ==
  {"response_5min", "qualification_15min", "meeting_48h", "proposal_72h", "handoff_24h"}
StartTypes == {"response_5min", "qualification_15min"}
BreachWorkers == {"b1", "b2"}
EscWorkers == {"e1", "e2"}

SLA_DURATIONS(t) ==
  CASE t = "response_5min" -> 5
    [] t = "qualification_15min" -> 15
    [] t = "meeting_48h" -> 48 * 60
    [] t = "proposal_72h" -> 72 * 60
    [] t = "handoff_24h" -> 24 * 60

VARIABLES
  webhook_logs,  \* table webhook_logs: sequence of rows [key, status, error]
  hpc,           \* per handler: position in the webhook handler
  hkey,          \* per handler: idempotency key of the event in hand
  calls,         \* isNewWebhookEvent calls made so far
  accepted,      \* per key: calls that returned true
  duplicate,     \* per key: calls that returned false
  thrown,        \* per key: calls that rethrew a storage error
  dupAfterFail,  \* per key: a call returned false after the row was marked failed
  now,           \* wall clock, minutes
  sla_events,    \* table sla_events: sequence of rows, id = index
  activities,    \* table activities: per sla id and type, number of rows
  sent,          \* per sla id and channel: messages delivered
  bpc, bBatch, bIdx, bNow, bCycles, counted,
  epc, eBatch, eIdx, eMin, eHas, eFired, eCycles, eDoneAtSelect,
  cLast,         \* the last startSla / completeSla call and the open rows it found
  follow_up_executions, \* table follow_up_executions: sequence of rows, id = index
  dispatched,    \* per execution id: step orders whose message sendTextMessage delivered
  follow_acts,   \* per execution id: step orders with a follow_up row in activities
  spc, sLead,    \* per startSequenceForLead call: position, lead
  fpc, fBatch, fIdx, fNow, fCycles, \* processDueFollowUps cycles
  fOut,          \* per cycle: outcome of each batch entry handled so far
  fDeadAtSelect, \* per cycle: executions that were not active when it selected
  fRuns, fFails, \* per execution id: cycles that selected it, cycles that failed on it
  cancelLast,    \* the last cancelSequencesForLead call and the rows it updated
  ipc, iphone,   \* per handler: position inside ingestLead, phone of the lead in hand
  ilead,         \* per handler: id of the lead ingestLead inserted or found
  leads,         \* table leads: sequence of rows, id = index
  lead_acts,     \* rows ingestLead adds to activities: [lead_id, type]
  crm_deals,     \* deals created in Pipedrive
  notified,      \* new-lead notifications delivered
  ingested,      \* per idempotency key: ingestLead runs begun for the event
  itried,        \* per lead row: best-effort steps attempted for it, and how many succeeded
  pure,          \* a function under test: its name, its input and its result
  mg,            \* mergeLead: the stored lead and, per caller, position, snapshot, input
  events,        \* receiver: table events, sequence of rows, id = index
  rq             \* receiver: per request its position, event and responses

guardVars == <<webhook_logs, hpc, hkey, calls, accepted, duplicate, thrown, dupAfterFail>>
tableVars == <<sla_events, activities, sent>>
breachVars == <<bpc, bBatch, bIdx, bNow, bCycles, counted>>
escVars == <<epc, eBatch, eIdx, eMin, eHas, eFired, eCycles, eDoneAtSelect>>
commitVars == <<cLast>>
followVars ==
  <<follow_up_executions, dispatched, follow_acts, spc, sLead, fpc, fBatch, fIdx, fNow,
    fCycles, fOut, fDeadAtSelect, fRuns, fFails, cancelLast>>
intakeVars ==
  <<ipc, iphone, ilead, leads, lead_acts, crm_deals, notified, ingested, itried>>
miscVars == <<pure, mg, events, rq>>
extVars == <<commitVars, followVars, intakeVars, miscVars>>
vars == <<guardVars, now, tableVars, breachVars, escVars, extVars>>

\* ===================================================== webhook guard
\* a unique index that leaves out the rows marked failed
UniqueAmongLive(k) ==
  \E i \in 1..Len(webhook_logs) : webhook_logs[i].key = k /\ webhook_logs[i].status # "failed"

\* idx_webhook_idempotency: the unique index on webhook_logs(idempotency_key)
UniqueViolation(k) == \E i \in 1..Len(webhook_logs) : webhook_logs[i].key = k

RowsWithKey(k) == {i \in 1..Len(webhook_logs) : webhook_logs[i].key = k}

\* isNewWebhookEvent: the insert succeeds and the call returns true
AdmitNew(h, k) ==
  /\ hpc[h] = "idle" /\ calls < MaxCalls
  /\ ~UniqueViolation(k)
  /\ webhook_logs' = Append(webhook_logs, [key |-> k, status |-> "received", error |-> FALSE])
  /\ hpc' = [hpc EXCEPT ![h] = "process"]
  /\ hkey' = [hkey EXCEPT ![h] = k]
  /\ calls' = calls + 1
  /\ accepted' = [accepted EXCEPT ![k] = @ + 1]
  /\ UNCHANGED <<duplicate, thrown, dupAfterFail>>

\* a handler that goes on to process an event isNewWebhookEvent reported as seen
AdmitDuplicateProceeds(h, k) ==
  /\ hpc[h] = "idle" /\ calls < MaxCalls
  /\ UniqueViolation(k)
  /\ calls' = calls + 1
  /\ duplicate' = [duplicate EXCEPT ![k] = @ + 1]
  /\ hpc' = [hpc EXCEPT ![h] = "process"]
  /\ hkey' = [hkey EXCEPT ![h] = k]
  /\ UNCHANGED <<webhook_logs, accepted, thrown, dupAfterFail>>

\* isNewWebhookEvent: the insert raises 23505 and the call returns false;
\* the handler skips the event
AdmitDuplicate(h, k) ==
  /\ hpc[h] = "idle" /\ calls < MaxCalls
  /\ UniqueViolation(k)
  /\ calls' = calls + 1
  /\ duplicate' = [duplicate EXCEPT ![k] = @ + 1]
  /\ dupAfterFail' = [dupAfterFail EXCEPT ![k] =
        @ \/ \E i \in RowsWithKey(k) : webhook_logs[i].status = "failed"]
  /\ UNCHANGED <<webhook_logs, hpc, hkey, accepted, thrown>>

\* a guard that reports a storage error as a new event
AdmitStorageErrorSwallowed(h, k) ==
  /\ hpc[h] = "idle" /\ calls < MaxCalls
  /\ calls' = calls + 1
  /\ thrown' = [thrown EXCEPT ![k] = @ + 1]
  /\ hpc' = [hpc EXCEPT ![h] = "process"]
  /\ hkey' = [hkey EXCEPT ![h] = k]
  /\ UNCHANGED <<webhook_logs, accepted, duplicate, dupAfterFail>>

\* isNewWebhookEvent: the insert raises another storage error, which is rethrown
AdmitStorageError(h, k) ==
  /\ hpc[h] = "idle" /\ calls < MaxCalls
  /\ calls' = calls + 1
  /\ thrown' = [thrown EXCEPT ![k] = @ + 1]
  /\ UNCHANGED <<webhook_logs, hpc, hkey, accepted, duplicate, dupAfterFail>>

\* markWebhookStatus: every row carrying the key gets the status
markWebhookStatus(k, status, err) ==
  [i \in 1..Len(webhook_logs) |->
     IF webhook_logs[i].key = k
       THEN [webhook_logs[i] EXCEPT !.status = status, !.error = err]
       ELSE webhook_logs[i]]

\* webhook handler: processing succeeded
HandlerProcessed(h) ==
  /\ hpc[h] = "process"
  /\ webhook_logs' = markWebhookStatus(hkey[h], "processed", FALSE)
  /\ hpc' = [hpc EXCEPT ![h] = "idle"]
  /\ UNCHANGED <<hkey, calls, accepted, duplicate, thrown, dupAfterFail>>

\* webhook handler: processing raised, the event is marked failed
HandlerFailed(h) ==
  /\ hpc[h] = "process"
  /\ webhook_logs' = markWebhookStatus(hkey[h], "failed", TRUE)
  /\ hpc' = [hpc EXCEPT ![h] = "idle"]
  /\ UNCHANGED <<hkey, calls, accepted, duplicate, thrown, dupAfterFail>>

\* ======================================================== SLA monitor
SlaIds == 1..Len(sla_events)

ActTypes == {"sla_breach", "escalation_slack", "escalation_critical"}
\* the deployment sets WHATSAPP_SDR_GROUP, WHATSAPP_OPS_GROUP and SLACK_WEBHOOK_URL,
\* so every send below reaches its channel or throws
Channels == {"sdr_group", "slack_warning", "slack_critical", "ops_group"}

\* the clock advances
Tick ==
  /\ now + TickMin <= MaxTime
  /\ now' = now + TickMin
  /\ UNCHANGED <<guardVars, extVars, tableVars, breachVars, escVars>>

\* startSla: insert an open row whose deadline is now + the type's duration
startSla(leadId, slaType) ==
  /\ sla_events' = Append(sla_events,
       [lead_id |-> leadId, sla_type |-> slaType, started_at |-> now,
        deadline_at |-> now + SLA_DURATIONS(slaType), completed_at |-> NULL,
        breached |-> FALSE, notified |-> FALSE])
  /\ UNCHANGED <<guardVars, now, activities, sent, breachVars, escVars, followVars,
                 miscVars>>

\* an update without the "completed_at is null" condition
CompleteMatchesAnyRow(leadId, slaType) ==
  {i \in SlaIds : /\ sla_events[i].lead_id = leadId
                  /\ sla_events[i].sla_type = slaType}

\* completeSla: the rows the update matches
CompleteMatches(leadId, slaType) ==
  {i \in SlaIds : /\ sla_events[i].lead_id = leadId
                  /\ sla_events[i].sla_type = slaType
                  /\ sla_events[i].completed_at = NULL}

\* completeSla: set completed_at = now on every matching row
completeSla(leadId, slaType) ==
  /\ sla_events' = [i \in SlaIds |->
       IF i \in CompleteMatches(leadId, slaType)
         THEN [sla_events[i] EXCEPT !.completed_at = now]
         ELSE sla_events[i]]
  /\ UNCHANGED <<guardVars, now, activities, sent, breachVars, escVars, followVars,
                 intakeVars, miscVars>>

\* an update that reaches only the newest of the matching rows
CompleteNewest(leadId, slaType) ==
  LET m == CompleteMatches(leadId, slaType)
  IN [i \in SlaIds |->
       IF i \in m /\ \A j \in m : j <= i
         THEN [sla_events[i] EXCEPT !.completed_at = now]
         ELSE sla_events[i]]

\* callers of the SLA monitor: webhook handlers and services, any lead, any time
CommitLeads == {"lead1", "lead2"}
CommitTypes == {"response_5min", "proposal_72h"}
NoCall == [op |-> "none", lead |-> "lead1", type |-> "response_5min", open |-> {}]

\* a caller awaits startSla(l, t)
CallStart(l, t) ==
  /\ Len(sla_events) < MaxCommit
  /\ startSla(l, t)
  /\ cLast' = [op |-> "start", lead |-> l, type |-> t, open |-> CompleteMatches(l, t)]
  /\ UNCHANGED intakeVars

\* a caller awaits completeSla(l, t)
CallComplete(l, t) ==
  /\ completeSla(l, t)
  /\ cLast' = [op |-> "complete", lead |-> l, type |-> t, open |-> CompleteMatches(l, t)]

\* checkSlaBreaches: the rows the select returns, as a sequence in id order
RECURSIVE SeqOfSet(_)
SeqOfSet(S) ==
  IF S = {} THEN <<>>
  ELSE LET m == CHOOSE x \in S : \A y \in S : x <= y
       IN <<m>> \o SeqOfSet(S \ {m})

\* a select that takes the deadline minute itself as passed
BreachedQueryInclusive(t) ==
  {i \in SlaIds : /\ sla_events[i].completed_at = NULL
                  /\ sla_events[i].breached = FALSE
                  /\ sla_events[i].deadline_at <= t}

BreachedQuery(t) ==
  {i \in SlaIds : /\ sla_events[i].completed_at = NULL
                  /\ sla_events[i].breached = FALSE
                  /\ sla_events[i].deadline_at < t}

BreachBatch(t) ==
  LET ids == SeqOfSet(BreachedQuery(t))
  IN [j \in 1..Len(ids) |-> [id |-> ids[j], notified |-> sla_events[ids[j]].notified]]

\* checkSlaBreaches: now = new Date(), the select, and the early return 0
CheckSelect(w) ==
  /\ bpc[w] = "idle" /\ bCycles < MaxBreachCycles
  /\ bCycles' = bCycles + 1
  /\ bNow' = [bNow EXCEPT ![w] = now]
  /\ bBatch' = [bBatch EXCEPT ![w] = BreachBatch(now)]
  /\ bIdx' = [bIdx EXCEPT ![w] = 1]
  /\ bpc' = [bpc EXCEPT ![w] = IF BreachBatch(now) = <<>> THEN "return" ELSE "mark"]
  /\ UNCHANGED <<guardVars, extVars, now, tableVars, counted, escVars>>

\* an update that matches no row
MarkBreachedLost(id) == sla_events

\* the update that marks the row breached
MarkBreached(id) ==
  [sla_events EXCEPT ![id].breached = TRUE]

CheckMark(w) ==
  /\ bpc[w] = "mark"
  /\ sla_events' = MarkBreached(bBatch[w][bIdx[w]].id)
  /\ bpc' = [bpc EXCEPT ![w] = "audit"]
  /\ UNCHANGED <<guardVars, extVars, now, activities, sent, bBatch, bIdx, bNow, bCycles, counted, escVars>>

\* the loop moves to the next selected row, or returns breached.length
BreachAdvance(w) ==
  /\ bIdx' = [bIdx EXCEPT ![w] = @ + 1]
  /\ bpc' = [bpc EXCEPT ![w] = IF bIdx[w] < Len(bBatch[w]) THEN "mark" ELSE "return"]

\* the sla_breach activity insert, then the test of the selected row's notified
CheckAudit(w) ==
  /\ bpc[w] = "audit"
  /\ activities' = [activities EXCEPT ![bBatch[w][bIdx[w]].id]["sla_breach"] = @ + 1]
  /\ IF ~bBatch[w][bIdx[w]].notified
       THEN bpc' = [bpc EXCEPT ![w] = "notify"] /\ bIdx' = bIdx
       ELSE BreachAdvance(w)
  /\ UNCHANGED <<guardVars, extVars, now, sla_events, sent, bBatch, bNow, bCycles, counted, escVars>>

\* sendGroupMessage to the SDR group succeeds
CheckNotifyOk(w) ==
  /\ bpc[w] = "notify"
  /\ sent' = [sent EXCEPT ![bBatch[w][bIdx[w]].id]["sdr_group"] = @ + 1]
  /\ bpc' = [bpc EXCEPT ![w] = "setNotified"]
  /\ UNCHANGED <<guardVars, extVars, now, sla_events, activities, bBatch, bIdx, bNow, bCycles, counted, escVars>>

\* sendGroupMessage throws: the catch logs, notified stays as it was
CheckNotifyFail(w) ==
  /\ bpc[w] = "notify"
  /\ BreachAdvance(w)
  /\ UNCHANGED <<guardVars, extVars, now, tableVars, bBatch, bNow, bCycles, counted, escVars>>

\* the update that sets notified = true
CheckSetNotified(w) ==
  /\ bpc[w] = "setNotified"
  /\ sla_events' = [sla_events EXCEPT ![bBatch[w][bIdx[w]].id].notified = TRUE]
  /\ BreachAdvance(w)
  /\ UNCHANGED <<guardVars, extVars, now, activities, sent, bBatch, bNow, bCycles, counted, escVars>>

\* return breached.length: every selected row is counted in the return value
CheckReturn(w) ==
  /\ bpc[w] = "return"
  /\ counted' = [i \in DOMAIN counted |->
       counted[i] + Cardinality({j \in 1..Len(bBatch[w]) : bBatch[w][j].id = i})]
  /\ bpc' = [bpc EXCEPT ![w] = "idle"]
  /\ bBatch' = [bBatch EXCEPT ![w] = <<>>]
  /\ bIdx' = [bIdx EXCEPT ![w] = 1]
  /\ bNow' = [bNow EXCEPT ![w] = 0]
  /\ UNCHANGED <<guardVars, extVars, now, tableVars, bCycles, escVars>>

\* ==================================================== escalation chain
\* a select that leaves out the completed_at filter
EscalationQueryAllBreached ==
  {i \in SlaIds : sla_events[i].breached = TRUE}

\* runEscalationCheck: the rows the first select returns
EscalationQuery ==
  {i \in SlaIds : /\ sla_events[i].breached = TRUE
                  /\ sla_events[i].completed_at = NULL}

\* runEscalationCheck: the select of breached, uncompleted rows
EscSelect(w) ==
  /\ epc[w] = "idle" /\ eCycles < MaxEscCycles
  /\ eCycles' = eCycles + 1
  /\ eBatch' = [eBatch EXCEPT ![w] = SeqOfSet(EscalationQuery)]
  /\ eIdx' = [eIdx EXCEPT ![w] = 1]
  /\ eDoneAtSelect' = [eDoneAtSelect EXCEPT ![w] =
       {i \in SlaIds : sla_events[i].completed_at # NULL}]
  /\ epc' = [epc EXCEPT ![w] = IF EscalationQuery = {} THEN "return" ELSE "read"]
  /\ UNCHANGED <<guardVars, extVars, now, tableVars, breachVars, eMin, eHas, eFired>>

\* Math.floor((Date.now() - deadline_at) / 60_000)
MinutesSinceBreach(id) == now - sla_events[id].deadline_at

\* a metadata filter that matches no activity
HasEscalationNoMatch(id, type) == FALSE

\* the select of the row's escalation activities
HasEscalation(id, type) == activities[id][type] > 0

\* a chain that opens level 2 as soon as the row is breached
NeedsSlackAtOnce(m, has) == ~has.slack

\* the test that opens level 2 (Slack, after 15 min)
NeedsSlack(m, has) == m >= EscSlackAfterMin /\ ~has.slack

\* a chain that fires only the level after the last one recorded
NeedsCriticalNextOnly(m, has) == m >= EscCriticalAfterMin /\ ~has.critical /\ has.slack

\* the test that opens level 3 (critical, after 30 min)
NeedsCritical(m, has) == m >= EscCriticalAfterMin /\ ~has.critical

EscCur(w) == eBatch[w][eIdx[w]]

\* loop head: minutesSinceBreach, the activities select, and the first test
EscRead(w) ==
  /\ epc[w] = "read"
  /\ LET id == EscCur(w)
         m == MinutesSinceBreach(id)
         has == [slack |-> HasEscalation(id, "escalation_slack"),
                 critical |-> HasEscalation(id, "escalation_critical")]
     IN /\ eMin' = [eMin EXCEPT ![w] = m]
        /\ eHas' = [eHas EXCEPT ![w] = has]
        /\ epc' = [epc EXCEPT ![w] =
             IF NeedsSlack(m, has) THEN "slackSend"
             ELSE IF NeedsCritical(m, has) THEN "criticalAlert"
             ELSE "done"]
  /\ eFired' = [eFired EXCEPT ![w] = {}]
  /\ UNCHANGED <<guardVars, extVars, now, tableVars, breachVars, eBatch, eIdx, eCycles, eDoneAtSelect>>

\* escalateToSlack: sendSlackAlert("warning") succeeds
EscSlackSendOk(w) ==
  /\ epc[w] = "slackSend"
  /\ sent' = [sent EXCEPT ![EscCur(w)]["slack_warning"] = @ + 1]
  /\ epc' = [epc EXCEPT ![w] = "slackLog"]
  /\ UNCHANGED <<guardVars, extVars, now, sla_events, activities, breachVars, eBatch, eIdx, eMin, eHas,
                 eFired, eCycles, eDoneAtSelect>>

\* a failed send that is swallowed where it happens: the record is written anyway
EscThrowSwallowed(w, at) ==
  /\ epc[w] = at
  /\ epc' = [epc EXCEPT ![w] =
       IF at \in {"slackSend", "slackLog"} THEN "slackLog" ELSE "criticalLog"]
  /\ UNCHANGED <<guardVars, extVars, now, tableVars, breachVars, eBatch, eIdx, eMin, eHas,
                 eFired, eCycles, eDoneAtSelect>>

\* a send or an insert throws: the catch logs and the loop goes to the next row
EscThrow(w, at) ==
  /\ epc[w] = at
  /\ epc' = [epc EXCEPT ![w] = "done"]
  /\ UNCHANGED <<guardVars, extVars, now, tableVars, breachVars, eBatch, eIdx, eMin, eHas,
                 eFired, eCycles, eDoneAtSelect>>

\* logEscalation: the activities insert
logEscalation(slaId, type) ==
  [activities EXCEPT ![slaId][type] = @ + 1]

\* logEscalation("escalation_slack") and the second test (the count returned,
\* escalated, is only logged by the job and is not kept)
EscSlackLog(w) ==
  /\ epc[w] = "slackLog"
  /\ activities' = logEscalation(EscCur(w), "escalation_slack")
  /\ eFired' = [eFired EXCEPT ![w] = @ \cup {"escalation_slack"}]
  /\ epc' = [epc EXCEPT ![w] =
       IF NeedsCritical(eMin[w], eHas[w]) THEN "criticalAlert" ELSE "done"]
  /\ UNCHANGED <<guardVars, extVars, now, sla_events, sent, breachVars, eBatch, eIdx, eMin, eHas,
                 eCycles, eDoneAtSelect>>

\* escalateToCritical: sendSlackAlert("critical") succeeds
EscCriticalAlertOk(w) ==
  /\ epc[w] = "criticalAlert"
  /\ sent' = [sent EXCEPT ![EscCur(w)]["slack_critical"] = @ + 1]
  /\ epc' = [epc EXCEPT ![w] = "criticalGroup"]
  /\ UNCHANGED <<guardVars, extVars, now, sla_events, activities, breachVars, eBatch, eIdx, eMin, eHas,
                 eFired, eCycles, eDoneAtSelect>>

\* escalateToCritical: sendGroupMessage to the ops group succeeds
EscCriticalGroupOk(w) ==
  /\ epc[w] = "criticalGroup"
  /\ sent' = [sent EXCEPT ![EscCur(w)]["ops_group"] = @ + 1]
  /\ epc' = [epc EXCEPT ![w] = "criticalLog"]
  /\ UNCHANGED <<guardVars, extVars, now, sla_events, activities, breachVars, eBatch, eIdx, eMin, eHas,
                 eFired, eCycles, eDoneAtSelect>>

\* logEscalation("escalation_critical")
EscCriticalLog(w) ==
  /\ epc[w] = "criticalLog"
  /\ activities' = logEscalation(EscCur(w), "escalation_critical")
  /\ eFired' = [eFired EXCEPT ![w] = @ \cup {"escalation_critical"}]
  /\ epc' = [epc EXCEPT ![w] = "done"]
  /\ UNCHANGED <<guardVars, extVars, now, sla_events, sent, breachVars, eBatch, eIdx, eMin, eHas,
                 eCycles, eDoneAtSelect>>

\* end of the loop body: the next selected row, or the return
EscNextRow(w) ==
  /\ epc[w] = "done"
  /\ eIdx' = [eIdx EXCEPT ![w] = @ + 1]
  /\ epc' = [epc EXCEPT ![w] = IF eIdx[w] < Len(eBatch[w]) THEN "read" ELSE "return"]
  /\ eMin' = [eMin EXCEPT ![w] = 0]
  /\ eHas' = [eHas EXCEPT ![w] = [slack |-> FALSE, critical |-> FALSE]]
  /\ eFired' = [eFired EXCEPT ![w] = {}]
  /\ UNCHANGED <<guardVars, extVars, now, tableVars, breachVars, eBatch, eCycles, eDoneAtSelect>>

\* return escalated
EscReturn(w) ==
  /\ epc[w] = "return"
  /\ epc' = [epc EXCEPT ![w] = "idle"]
  /\ eBatch' = [eBatch EXCEPT ![w] = <<>>]
  /\ eIdx' = [eIdx EXCEPT ![w] = 1]
  /\ eDoneAtSelect' = [eDoneAtSelect EXCEPT ![w] = {}]
  /\ UNCHANGED <<guardVars, extVars, now, tableVars, breachVars, eMin, eHas, eFired, eCycles>>

\* ================================================ follow-up sequences
FollowLeads == {"lead1", "lead2"}
Starters == {"s1", "s2"}
FollowWorkers == {"f1", "f2"}
Reasons == {"responded", "cancelled"}
ExecIds == 1..Len(follow_up_executions)

followFrame ==
  <<guardVars, now, tableVars, breachVars, escVars, commitVars, intakeVars, miscVars>>

\* follow_up_steps of the active sequence of the lead's funnel: delay_minutes in
\* step_order
follow_up_steps(leadId) == IF leadId = "lead1" THEN <<5, 10>> ELSE <<5>>

\* a lead whose funnel's sequence was given one email step after the seed
EmailLead == "lead3"

\* follow_up_steps.channel, 'whatsapp' or 'email': every seeded step is on
\* whatsapp
StepChannel(leadId, order) == IF leadId = EmailLead THEN "email" ELSE "whatsapp"

\* the select of the step with a given step_order returns a row
HasStep(leadId, order) == order \in 1..Len(follow_up_steps(leadId))

Delay(leadId, order) ==
  IF HasStep(leadId, order) THEN follow_up_steps(leadId)[order] ELSE 0

\* a look-ahead that always finds a step
HasNextStepAlways(leadId, order) == TRUE

\* processDueFollowUps: the look-ahead select of the step after the one sent
HasNextStep(leadId, order) == HasStep(leadId, order + 1)

ActiveOf(leadId) ==
  {i \in ExecIds : /\ follow_up_executions[i].lead_id = leadId
                   /\ follow_up_executions[i].status = "active"}

\* startSequenceForLead: the three selects; returns when an execution is
\* active or the funnel has no sequence or the sequence no first step
StartCheck(s, l) ==
  /\ spc[s] = "idle"
  /\ Len(follow_up_executions) + Cardinality({x \in Starters : spc[x] = "insert"}) < MaxExec
  /\ IF ActiveOf(l) # {} \/ ~HasStep(l, 1)
       THEN UNCHANGED <<spc, sLead>>
       ELSE /\ spc' = [spc EXCEPT ![s] = "insert"]
            /\ sLead' = [sLead EXCEPT ![s] = l]
  /\ UNCHANGED <<followFrame, follow_up_executions, dispatched, follow_acts, fpc, fBatch,
                 fIdx, fNow, fCycles, fOut, fDeadAtSelect, fRuns, fFails, cancelLast>>

\* startSequenceForLead: the insert at step 0, next_run_at = now + first delay
StartInsert(s) ==
  /\ spc[s] = "insert"
  /\ follow_up_executions' = Append(follow_up_executions,
       [lead_id |-> sLead[s], current_step |-> 0, status |-> "active",
        next_run_at |-> now + Delay(sLead[s], 1), completed_at |-> NULL])
  /\ spc' = [spc EXCEPT ![s] = "idle"]
  /\ UNCHANGED <<followFrame, dispatched, follow_acts, sLead, fpc, fBatch, fIdx, fNow,
                 fCycles, fOut, fDeadAtSelect, fRuns, fFails, cancelLast>>

\* an update without the status = 'active' condition
CancelMatchesAnyStatus(leadId) ==
  {i \in ExecIds : follow_up_executions[i].lead_id = leadId}

\* cancelSequencesForLead: the rows the update matches
CancelMatches(leadId) == ActiveOf(leadId)

cancelSequencesForLead(leadId, reason) ==
  /\ follow_up_executions' = [i \in ExecIds |->
       IF i \in CancelMatches(leadId)
         THEN [follow_up_executions[i] EXCEPT !.status = reason, !.completed_at = now]
         ELSE follow_up_executions[i]]
  /\ UNCHANGED <<followFrame, dispatched, follow_acts, spc, sLead, fpc, fBatch, fIdx, fNow,
                 fCycles, fOut, fDeadAtSelect, fRuns, fFails>>

\* a caller awaits cancelSequencesForLead(l, r)
CallCancel(l, r) ==
  /\ cancelSequencesForLead(l, r)
  /\ cancelLast' = [lead |-> l, reason |-> r, updated |-> CancelMatches(l)]

\* a select without the status = 'active' condition
FollowDueAnyStatus(t) ==
  {i \in ExecIds : /\ follow_up_executions[i].next_run_at # NULL
                   /\ follow_up_executions[i].next_run_at <= t}

\* processDueFollowUps: the executions the select returns
FollowDue(t) ==
  {i \in ExecIds : /\ follow_up_executions[i].status = "active"
                   /\ follow_up_executions[i].next_run_at # NULL
                   /\ follow_up_executions[i].next_run_at <= t}

FollowBatch(t) ==
  LET ids == SeqOfSet(FollowDue(t))
  IN [j \in 1..Len(ids) |->
       [id |-> ids[j], lead_id |-> follow_up_executions[ids[j]].lead_id,
        current_step |-> follow_up_executions[ids[j]].current_step]]

\* processDueFollowUps: now = new Date(), the select, and the early return 0
DueSelect(w) ==
  /\ fpc[w] = "idle" /\ fCycles < MaxFollowCycles
  /\ fCycles' = fCycles + 1
  /\ fNow' = [fNow EXCEPT ![w] = now]
  /\ fBatch' = [fBatch EXCEPT ![w] = FollowBatch(now)]
  /\ fIdx' = [fIdx EXCEPT ![w] = 1]
  /\ fOut' = [fOut EXCEPT ![w] = <<>>]
  /\ fDeadAtSelect' = [fDeadAtSelect EXCEPT ![w] =
       {i \in ExecIds : follow_up_executions[i].status # "active"}]
  /\ fRuns' = [i \in 1..MaxExec |-> IF i \in FollowDue(now) THEN fRuns[i] + 1 ELSE fRuns[i]]
  /\ fpc' = [fpc EXCEPT ![w] = IF FollowBatch(now) = <<>> THEN "return" ELSE "step"]
  /\ UNCHANGED <<followFrame, follow_up_executions, dispatched, follow_acts, spc, sLead,
                 fFails, cancelLast>>

FollowCur(w) == fBatch[w][fIdx[w]]
nextStepOrder(w) == FollowCur(w).current_step + 1

\* the for loop moves to the next execution of the batch, or ends
FollowAdvance(w, outcome) ==
  /\ fOut' = [fOut EXCEPT ![w] = Append(@, outcome)]
  /\ fIdx' = [fIdx EXCEPT ![w] = @ + 1]
  /\ fpc' = [fpc EXCEPT ![w] = IF fIdx[w] < Len(fBatch[w]) THEN "step" ELSE "return"]

\* processDueFollowUps: select the step; with none left mark the execution completed
DueStep(w) ==
  /\ fpc[w] = "step"
  /\ IF HasStep(FollowCur(w).lead_id, nextStepOrder(w))
       THEN /\ fpc' = [fpc EXCEPT ![w] = "send"]
            /\ UNCHANGED <<follow_up_executions, fOut, fIdx>>
       ELSE /\ follow_up_executions' = [follow_up_executions EXCEPT
                 ![FollowCur(w).id].status = "completed",
                 ![FollowCur(w).id].completed_at = fNow[w]]
            /\ FollowAdvance(w, "completed")
  /\ UNCHANGED <<followFrame, dispatched, follow_acts, spc, sLead, fBatch, fNow, fCycles,
                 fDeadAtSelect, fRuns, fFails, cancelLast>>

\* processDueFollowUps: the template renders, and sendTextMessage delivers
\* where the step's channel is whatsapp; no other channel has a send
DueSendOk(w) ==
  /\ fpc[w] = "send"
  /\ dispatched' =
       IF StepChannel(FollowCur(w).lead_id, nextStepOrder(w)) = "whatsapp"
         THEN [dispatched EXCEPT ![FollowCur(w).id] = Append(@, nextStepOrder(w))]
         ELSE dispatched
  /\ fpc' = [fpc EXCEPT ![w] = "log"]
  /\ UNCHANGED <<followFrame, follow_up_executions, follow_acts, spc, sLead, fBatch, fIdx,
                 fNow, fCycles, fOut, fDeadAtSelect, fRuns, fFails, cancelLast>>

\* an exception that leaves the for loop
DueThrowEndsCycle(w) ==
  /\ fpc[w] = "send"
  /\ fOut' = [fOut EXCEPT ![w] = Append(@, "failed")]
  /\ fpc' = [fpc EXCEPT ![w] = "return"]
  /\ fFails' = [fFails EXCEPT ![FollowCur(w).id] = @ + 1]
  /\ UNCHANGED <<followFrame, follow_up_executions, dispatched, follow_acts, spc, sLead,
                 fBatch, fIdx, fNow, fCycles, fDeadAtSelect, fRuns, cancelLast>>

\* processDueFollowUps: Handlebars or sendTextMessage throws; the catch inside
\* the loop logs and the loop goes on
DueThrow(w) ==
  /\ fpc[w] = "send"
  /\ FollowAdvance(w, "failed")
  /\ fFails' = [fFails EXCEPT ![FollowCur(w).id] = @ + 1]
  /\ UNCHANGED <<followFrame, follow_up_executions, dispatched, follow_acts, spc, sLead,
                 fBatch, fNow, fCycles, fDeadAtSelect, fRuns, cancelLast>>

\* processDueFollowUps: the activities insert or the update of the execution
\* throws after the send; the same catch logs and the loop goes on
DueThrowAfterSend(w) ==
  /\ fpc[w] \in {"log", "advance"}
  /\ FollowAdvance(w, "failed")
  /\ fFails' = [fFails EXCEPT ![FollowCur(w).id] = @ + 1]
  /\ UNCHANGED <<followFrame, follow_up_executions, dispatched, follow_acts, spc, sLead,
                 fBatch, fNow, fCycles, fDeadAtSelect, fRuns, cancelLast>>

\* processDueFollowUps: the follow_up row in activities
DueLog(w) ==
  /\ fpc[w] = "log"
  /\ follow_acts' = [follow_acts EXCEPT ![FollowCur(w).id] = Append(@, nextStepOrder(w))]
  /\ fpc' = [fpc EXCEPT ![w] = "advance"]
  /\ UNCHANGED <<followFrame, follow_up_executions, dispatched, spc, sLead, fBatch, fIdx,
                 fNow, fCycles, fOut, fDeadAtSelect, fRuns, fFails, cancelLast>>

\* processDueFollowUps: the look-ahead and the update where id = execution_id
DueAdvance(w) ==
  /\ fpc[w] = "advance"
  /\ follow_up_executions' =
       IF HasNextStep(FollowCur(w).lead_id, nextStepOrder(w))
         THEN [follow_up_executions EXCEPT
                 ![FollowCur(w).id].current_step = nextStepOrder(w),
                 ![FollowCur(w).id].next_run_at =
                    fNow[w] + Delay(FollowCur(w).lead_id, nextStepOrder(w) + 1)]
         ELSE [follow_up_executions EXCEPT
                 ![FollowCur(w).id].current_step = nextStepOrder(w),
                 ![FollowCur(w).id].status = "completed",
                 ![FollowCur(w).id].completed_at = fNow[w],
                 ![FollowCur(w).id].next_run_at = NULL]
  /\ FollowAdvance(w, "sent")
  /\ UNCHANGED <<followFrame, dispatched, follow_acts, spc, sLead, fBatch, fNow, fCycles,
                 fDeadAtSelect, fRuns, fFails, cancelLast>>

\* processDueFollowUps: return processed
DueReturn(w) ==
  /\ fpc[w] = "return"
  /\ fpc' = [fpc EXCEPT ![w] = "idle"]
  /\ UNCHANGED <<followFrame, follow_up_executions, dispatched, follow_acts, spc, sLead,
                 fBatch, fIdx, fNow, fCycles, fOut, fDeadAtSelect, fRuns, fFails, cancelLast>>

\* ======================================================= lead scoring
\* services/lead-scoring. A text field the input does not carry is Absent;
\* a number it does not carry is NULL.

Absent == "<absent>"
TruthyText(v) == v \notin {Absent, ""}
TruthyNumber(v) == v \notin {NULL, 0}

\* scoreLead: sourceScores[input.source] ?? 5
SourceScore(source) ==
  CASE source = "architect" -> 25
    [] source = "referral" -> 20
    [] source = "website" -> 15
    [] source = "instagram" -> 12
    [] source = "meta_ads" -> 10
    [] source = "google_ads" -> 10
    [] source = "whatsapp" -> 8
    [] OTHER -> 5

ClientTypeScore(input) ==
  CASE input.client_type = "architect" -> 20
    [] input.client_type = "developer" -> 15
    [] input.client_type = "end_client" -> 10
    [] OTHER -> 0

ProjectStageScore(input) ==
  CASE input.project_stage = "acabamentos" -> 20
    [] input.project_stage = "obra_iniciada" -> 12
    [] input.project_stage = "planta" -> 5
    [] OTHER -> 0

TicketScoreUncapped(input) ==
  IF ~TruthyNumber(input.estimated_ticket) THEN 0
  ELSE IF input.estimated_ticket >= 100000 THEN 30
  ELSE IF input.estimated_ticket >= 50000 THEN 15
  ELSE IF input.estimated_ticket >= 20000 THEN 10
  ELSE 5

TicketScore(input) ==
  IF ~TruthyNumber(input.estimated_ticket) THEN 0
  ELSE IF input.estimated_ticket >= 100000 THEN 20
  ELSE IF input.estimated_ticket >= 50000 THEN 15
  ELSE IF input.estimated_ticket >= 20000 THEN 10
  ELSE 5

\* fields.filter(Boolean).length over the seven completeness fields
Filled(input) ==
  Cardinality({f \in {"email", "client_type", "project_type", "project_stage",
                      "location", "estimated_deadline"} : TruthyText(input[f])})
  + (IF TruthyNumber(input.estimated_ticket) THEN 1 ELSE 0)

\* Math.round((filled / 7) * 15): the nearest integer, halves upwards
CompletenessScore(input) == (30 * Filled(input) + 7) \div 14

Min2(a, b) == IF a <= b THEN a ELSE b

scoreLeadNoTicket(input) ==
  Min2(SourceScore(input.source) + ClientTypeScore(input) + ProjectStageScore(input)
         + CompletenessScore(input), 100)

scoreLead(input) ==
  Min2(SourceScore(input.source) + ClientTypeScore(input) + ProjectStageScore(input)
         + TicketScore(input) + CompletenessScore(input), 100)

\* the inputs scoreLead is applied to
ScoreInputs ==
  [source : {"architect", "meta_ads", "whatsapp", "partner"},
   client_type : {Absent, "architect", "developer", "end_client"},
   project_stage : {Absent, "acabamentos", "obra_iniciada", "planta"},
   estimated_ticket : {NULL, 0, 15000, 30000, 60000, 150000},
   email : {Absent, "", "a@x"},
   project_type : {Absent, "residencial"},
   location : {Absent, "sp"},
   estimated_deadline : {Absent, "2026-06"}]

\* ingestLead: the score computed for the insert and stored in the new row
ScoreNewLead ==
  /\ pure.fn = "input"
  /\ pure' = [fn |-> "scoreLead", inp |-> pure.inp, out |-> scoreLead(pure.inp)]
  /\ UNCHANGED <<guardVars, now, tableVars, breachVars, escVars, commitVars,
                 followVars, intakeVars, mg, events, rq>>

\* ===================================================== lead ingestion
\* a phone is the sequence of its characters
PhoneDigits == {"0", "1", "2", "3", "4", "5", "6", "7", "8", "9"}
IsDigit(c) == c \in PhoneDigits

\* the phones normalizePhone is applied to: a country prefix, an area code and
\* a local number as forms and messages carry them, and two without digits
PhonePrefixes ==
  {<<>>,
   <<"+", "5", "5">>,
   <<"5", "5">>,
   <<"+", "5", "5", " ">>}
PhoneAreas ==
  {<<"1", "1">>,
   <<"(", "1", "1", ")", " ">>,
   <<"2", "1">>}
PhoneLocals ==
  {<<"9", "9", "9", "8", "8", "-", "7", "7", "6", "6">>,
   <<"9", "9", "9", "8", "8", "7", "7", "6", "6">>,
   <<"8", "7", "6", "5", "-", "4", "3", "2", "1">>,
   <<"8", "7", "6", "5", "4", "3", "2", "1">>,
   <<"9", "8", "7", "6", "5", "4", "3", "2">>,
   <<"0", "8", "7", "6", "-", "5", "4", "3", "2">>,
   <<"8", "7", "6", "5", "4", "3">>}
PhoneInputs ==
  {p \o a \o l : p \in PhonePrefixes, a \in PhoneAreas, l \in PhoneLocals}
    \cup {<<"n", "/", "a">>, <<>>}

normalizePhoneNoNinthDigit(phone) ==
  LET stripped == SelectSeq(phone, IsDigit)
  IN IF Len(stripped) \in {10, 11} THEN <<"5", "5">> \o stripped ELSE stripped

\* normalizePhone: strip the non-digits, prepend the country code to 10 or 11
\* digits, insert the ninth digit into 55 + area code + 8 digits
normalizePhone(phone) ==
  LET stripped == SelectSeq(phone, IsDigit)
      digits == IF Len(stripped) \in {10, 11} THEN <<"5", "5">> \o stripped
                ELSE stripped
  IN IF /\ Len(digits) = 12
        /\ SubSeq(digits, 1, 2) = <<"5", "5">>
        /\ Len(SubSeq(digits, 5, 12)) = 8 /\ digits[5] # "0"
     THEN SubSeq(digits, 1, 4) \o <<"9">> \o SubSeq(digits, 5, 12)
     ELSE digits

\* input.phone as the webhooks deliver it: "(11) 9988-7766", "11999887766"
\* and "n/a"
RawPhones ==
  {<<"(", "1", "1", ")", " ", "9", "9", "8", "8", "-", "7", "7", "6", "6">>,
   <<"1", "1", "9", "9", "9", "8", "8", "7", "7", "6", "6">>,
   <<"n", "/", "a">>}

Phones == {normalizePhone(r) : r \in RawPhones}
NoPhone == <<>>

\* the funnel ingestLead stores for a client type
inferFunnel(clientType) ==
  IF clientType = "architect" THEN "architects"
  ELSE IF clientType \in {"developer", "contractor"} THEN "developers"
  ELSE "end_client"

\* the input the Meta handler builds from a lead form: no client type, stage,
\* ticket or deadline
LeadForm ==
  [source |-> "meta_ads", client_type |-> Absent, project_stage |-> Absent,
   estimated_ticket |-> NULL, email |-> "a@x", project_type |-> "residencial",
   location |-> "sp", estimated_deadline |-> Absent]

\* the columns of the new leads row that the model keeps
NewLeadRow(p) ==
  [phone |-> p, pipedrive_deal_id |-> NULL,
   funnel |-> inferFunnel(LeadForm.client_type), stage |-> "triagem",
   score |-> scoreLead(LeadForm)]
LeadId(n) == IF n = 1 THEN "lead1" ELSE IF n = 2 THEN "lead2" ELSE "lead3"
LeadsWithPhone(p) == {i \in 1..Len(leads) : leads[i].phone = p}

ingestFrame ==
  <<now, activities, sent, breachVars, escVars, commitVars, followVars, miscVars>>

\* no best-effort step has been attempted for a lead
NoAttempts == [s \in {"crm", "sla", "notify"} |-> [tried |-> 0, ok |-> 0]]

\* a best-effort step of ingestLead ran for the lead and returned or threw
Attempted(n, step, ok) ==
  [itried EXCEPT ![n][step] =
     [tried |-> @.tried + 1, ok |-> @.ok + (IF ok THEN 1 ELSE 0)]]

\* the position inside ingestLead changes, nothing else of the handler does
IngestGoto(h, pos) ==
  /\ ipc' = [ipc EXCEPT ![h] = pos]
  /\ UNCHANGED guardVars

\* ingestLead: normalizePhone and the select of a lead with the phone
IngestDedup(h, raw) ==
  LET p == normalizePhone(raw) IN
  /\ hpc[h] = "process" /\ ipc[h] = "none"
  /\ IngestGoto(h, IF LeadsWithPhone(p) # {} THEN "merge" ELSE "insert")
  /\ iphone' = [iphone EXCEPT ![h] = p]
  /\ ilead' = [ilead EXCEPT ![h] =
       IF LeadsWithPhone(p) # {} THEN CHOOSE i \in LeadsWithPhone(p) : TRUE ELSE @]
  /\ ingested' = [ingested EXCEPT ![hkey[h]] = @ + 1]
  /\ UNCHANGED <<ingestFrame, sla_events, leads, lead_acts, crm_deals, notified, itried>>

IngestMergeThenSync(h) ==
  /\ hpc[h] = "process" /\ ipc[h] = "merge"
  /\ IngestGoto(h, "crm")
  /\ lead_acts' = Append(lead_acts, [lead_id |-> ilead[h], type |-> "note"])
  /\ UNCHANGED <<ingestFrame, sla_events, iphone, ilead, leads, crm_deals, notified, ingested, itried>>

\* mergeLead: the update, which writes none of the columns kept here (email,
\* client_type, project_type, project_stage, location, estimated_ticket and
\* updated_at only), and the note activity; returns isNew false
IngestMerge(h) ==
  /\ hpc[h] = "process" /\ ipc[h] = "merge"
  /\ IngestGoto(h, "merged")
  /\ lead_acts' = Append(lead_acts, [lead_id |-> ilead[h], type |-> "note"])
  /\ UNCHANGED <<ingestFrame, sla_events, iphone, ilead, leads, crm_deals, notified, ingested, itried>>

LeadPhoneTakenNever(p) == FALSE

\* the unique index idx_leads_phone_normalized rejects a second row of a phone
LeadPhoneTaken(p) == LeadsWithPhone(p) # {}

\* ingestLead: the insert into leads; where the index rejects it the insert
\* throws and the handler's catch runs instead
IngestInsert(h) ==
  /\ hpc[h] = "process" /\ ipc[h] = "insert"
  /\ ~LeadPhoneTaken(iphone[h])
  /\ IngestGoto(h, "audit")
  /\ leads' = Append(leads, NewLeadRow(iphone[h]))
  /\ ilead' = [ilead EXCEPT ![h] = Len(leads) + 1]
  /\ itried' = Append(itried, NoAttempts)
  /\ UNCHANGED <<ingestFrame, sla_events, iphone, lead_acts, crm_deals, notified, ingested>>

\* ingestLead: the sla_start activity
IngestAudit(h) ==
  /\ hpc[h] = "process" /\ ipc[h] = "audit"
  /\ IngestGoto(h, "crm")
  /\ lead_acts' = Append(lead_acts, [lead_id |-> ilead[h], type |-> "sla_start"])
  /\ UNCHANGED <<ingestFrame, sla_events, iphone, ilead, leads, crm_deals, notified, ingested, itried>>

\* ingestLead: syncToPipedrive creates the deal and stores its id
IngestSyncOk(h) ==
  /\ hpc[h] = "process" /\ ipc[h] = "crm"
  /\ IngestGoto(h, "sla")
  /\ crm_deals' = crm_deals + 1
  /\ leads' = [leads EXCEPT ![ilead[h]].pipedrive_deal_id = crm_deals + 1]
  /\ itried' = Attempted(ilead[h], "crm", TRUE)
  /\ UNCHANGED <<ingestFrame, sla_events, iphone, ilead, lead_acts, notified, ingested>>

\* ingestLead: syncToPipedrive throws before creating the deal; caught and logged
IngestSyncFail(h) ==
  /\ hpc[h] = "process" /\ ipc[h] = "crm"
  /\ IngestGoto(h, "sla")
  /\ itried' = Attempted(ilead[h], "crm", FALSE)
  /\ UNCHANGED <<ingestFrame, sla_events, iphone, ilead, leads, lead_acts, crm_deals,
                 notified, ingested>>

IngestStartSlaQualification(h) ==
  /\ hpc[h] = "process" /\ ipc[h] = "sla"
  /\ ipc' = [ipc EXCEPT ![h] = "notify"]
  /\ startSla(LeadId(ilead[h]), "qualification_15min")
  /\ itried' = Attempted(ilead[h], "sla", TRUE)
  /\ UNCHANGED <<commitVars, iphone, ilead, leads, lead_acts, crm_deals, notified, ingested>>

\* ingestLead: startSla(lead.id, "response_5min")
IngestStartSla(h) ==
  /\ hpc[h] = "process" /\ ipc[h] = "sla"
  /\ ipc' = [ipc EXCEPT ![h] = "notify"]
  /\ startSla(LeadId(ilead[h]), "response_5min")
  /\ itried' = Attempted(ilead[h], "sla", TRUE)
  /\ UNCHANGED <<commitVars, iphone, ilead, leads, lead_acts, crm_deals, notified, ingested>>

IngestStartSlaFailSkipsNotify(h) ==
  /\ hpc[h] = "process" /\ ipc[h] = "sla"
  /\ IngestGoto(h, "done")
  /\ itried' = Attempted(ilead[h], "sla", FALSE)
  /\ UNCHANGED <<ingestFrame, sla_events, iphone, ilead, leads, lead_acts, crm_deals,
                 notified, ingested>>

\* ingestLead: startSla throws before its insert; caught and logged
IngestStartSlaFail(h) ==
  /\ hpc[h] = "process" /\ ipc[h] = "sla"
  /\ IngestGoto(h, "notify")
  /\ itried' = Attempted(ilead[h], "sla", FALSE)
  /\ UNCHANGED <<ingestFrame, sla_events, iphone, ilead, leads, lead_acts, crm_deals,
                 notified, ingested>>

\* ingestLead: notifyNewLead delivers
IngestNotifyOk(h) ==
  /\ hpc[h] = "process" /\ ipc[h] = "notify"
  /\ IngestGoto(h, "done")
  /\ notified' = notified + 1
  /\ itried' = Attempted(ilead[h], "notify", TRUE)
  /\ UNCHANGED <<ingestFrame, sla_events, iphone, ilead, leads, lead_acts, crm_deals, ingested>>

\* ingestLead: notifyNewLead throws; caught and logged
IngestNotifyFail(h) ==
  /\ hpc[h] = "process" /\ ipc[h] = "notify"
  /\ IngestGoto(h, "done")
  /\ itried' = Attempted(ilead[h], "notify", FALSE)
  /\ UNCHANGED <<ingestFrame, sla_events, iphone, ilead, leads, lead_acts, crm_deals,
                 notified, ingested>>

\* ingestLead has returned: isNew true after the insert path, false after a merge
IngestReturned == {"done", "merged"}

\* the places where ingestLead lets an exception out: fetchLeadData and the
\* store calls outside its try blocks
IngestThrowPoints == {"none", "insert", "audit", "merge"}

\* the Google handler's catch: the exception is logged, the row keeps its status
HandlerLogsOnly(h) ==
  /\ hpc[h] = "process"
  /\ hpc' = [hpc EXCEPT ![h] = "idle"]
  /\ UNCHANGED <<webhook_logs, hkey, calls, accepted, duplicate, thrown, dupAfterFail>>

intakeRest == <<leads, lead_acts, crm_deals, notified, ingested, itried>>

\* ingestLead is over: its locals are gone
IngestLeave(h) ==
  /\ ipc' = [ipc EXCEPT ![h] = "none"]
  /\ iphone' = [iphone EXCEPT ![h] = NoPhone]
  /\ ilead' = [ilead EXCEPT ![h] = 1]

\* ============================================================ mergeLead
\* The merged columns of a lead row, one text and one number standing for
\* the six mergeLead treats alike. A null text column is Absent, a null
\* number column NULL.

Mergers == {"m1", "m2"}
MergeFields == {"email", "estimated_ticket"}
Truthy(f, v) == IF f = "email" THEN TruthyText(v) ELSE TruthyNumber(v)
IsNull(f, v) == IF f = "email" THEN v = Absent ELSE v = NULL

\* the values a lead row may hold in the two columns, and an input may carry
LeadColumns == [email : {Absent, "", "a@x"}, estimated_ticket : {NULL, 0, 50000}]
MergeInputs == [email : {Absent, "", "b@y", "c@z"}, estimated_ticket : {NULL, 0, 70000}]

NoCaller == [pc |-> "idle", existing |-> [email |-> Absent, estimated_ticket |-> NULL],
             input |-> [email |-> Absent, estimated_ticket |-> NULL]]
NoMerge ==
  [lead |-> [email |-> Absent, estimated_ticket |-> NULL],
   m |-> [x \in Mergers |-> NoCaller]]

\* mergeLead: the keys of updates besides updated_at
MergeUpdates(existing, input) ==
  {f \in MergeFields : ~Truthy(f, existing[f]) /\ Truthy(f, input[f])}

\* ingestLead: the select that finds the lead; existing is what it returned
MergeSelect(x, input) ==
  /\ mg.m[x].pc = "idle"
  /\ mg' = [mg EXCEPT !.m[x] = [pc |-> "update", existing |-> mg.lead, input |-> input]]
  /\ UNCHANGED <<guardVars, now, tableVars, breachVars, escVars, commitVars,
                 followVars, intakeVars, pure, events, rq>>

\* mergeLead: update leads set <updates> where id = existing.id
MergeUpdate(x) ==
  /\ mg.m[x].pc = "update"
  /\ mg' = [mg EXCEPT
       !.lead = [f \in MergeFields |->
                   IF f \in MergeUpdates(mg.m[x].existing, mg.m[x].input)
                     THEN mg.m[x].input[f] ELSE @[f]],
       !.m[x].pc = "done"]
  /\ UNCHANGED <<guardVars, now, tableVars, breachVars, escVars, commitVars,
                 followVars, intakeVars, pure, events, rq>>

\* a caller of normalizePhone: the function applied to the input in hand
ApplyNormalizePhone ==
  /\ pure.fn = "phone"
  /\ pure' = [fn |-> "normalizePhone", inp |-> pure.inp, out |-> normalizePhone(pure.inp)]
  /\ UNCHANGED <<guardVars, now, tableVars, breachVars, escVars, commitVars,
                 followVars, intakeVars, mg, events, rq>>

\* ===================================================== event receiver
\* control-tower cloudrun-receiver, routes/events.ts: POST /events.

Requests == {"r1", "r2", "r3"}
EventKeys == {"e1", "e2"}
Payloads == {"a", "b"}

\* a request that has not arrived yet
NoRequest ==
  [pc |-> "idle", key |-> "none", payload |-> "none", evt |-> NULL,
   exec |-> NULL, trig |-> 0, rowAtTrig |-> FALSE, answers |-> <<>>]

receiverFrame ==
  <<guardVars, now, tableVars, breachVars, escVars, commitVars, followVars,
    intakeVars, pure, mg>>

EventsWithKeyUnindexed(k) == {}

\* the rows the unique constraint on events(idempotency_key) sets against an
\* insert of the key
EventsWithKey(k) == {i \in 1..Len(events) : events[i].key = k}

\* triggerWorkflow: the id of the execution it created for the event
ExecutionId(evt) == 100 + evt

updateEventStatusDropsPayload(id, status, exec, err) ==
  [events EXCEPT ![id] = [@ EXCEPT !.status = status, !.exec = exec, !.error = err,
                                   !.payload = "none"]]

\* updateEventStatus: status, workflow_execution_id and error of the row
updateEventStatus(id, status, exec, err) ==
  [events EXCEPT ![id] = [@ EXCEPT !.status = status, !.exec = exec, !.error = err]]

\* POST /events: saveEvent; insert ... on conflict (idempotency_key) do
\* nothing returning id. Without a returned id the answer is duplicate
ReceiverSave(r, k, p) ==
  /\ rq[r].pc = "idle"
  /\ IF EventsWithKey(k) = {}
       THEN /\ events' = Append(events, [key |-> k, status |-> "received",
                                         payload |-> p, exec |-> NULL, error |-> "none"])
            /\ rq' = [rq EXCEPT ![r] = [@ EXCEPT !.pc = "trigger", !.key = k,
                                                 !.payload = p, !.evt = Len(events) + 1]]
       ELSE /\ events' = events
            /\ rq' = [rq EXCEPT ![r] = [@ EXCEPT !.pc = "done", !.key = k, !.payload = p,
                                                 !.answers = Append(@, "duplicate")]]
  /\ UNCHANGED receiverFrame

\* triggerWorkflow returns the execution id
ReceiverTriggerOk(r) ==
  /\ rq[r].pc = "trigger"
  /\ rq' = [rq EXCEPT ![r] = [@ EXCEPT !.pc = "processing", !.trig = @ + 1,
                                       !.exec = ExecutionId(rq[r].evt),
                                       !.rowAtTrig = EventsWithKey(rq[r].key) # {}]]
  /\ UNCHANGED <<receiverFrame, events>>

\* triggerWorkflow throws
ReceiverTriggerFail(r) ==
  /\ rq[r].pc = "trigger"
  /\ rq' = [rq EXCEPT ![r] = [@ EXCEPT !.pc = "failed", !.trig = @ + 1,
                                       !.rowAtTrig = EventsWithKey(rq[r].key) # {}]]
  /\ UNCHANGED <<receiverFrame, events>>

\* updateEventStatus(eventId, "processing", executionId) and the answer accepted
ReceiverMarkProcessing(r) ==
  /\ rq[r].pc = "processing"
  /\ events' = updateEventStatus(rq[r].evt, "processing", rq[r].exec, "none")
  /\ rq' = [rq EXCEPT ![r] = [@ EXCEPT !.pc = "done", !.answers = Append(@, "accepted")]]
  /\ UNCHANGED receiverFrame

\* the catch: updateEventStatus(eventId, "failed", undefined, message) and the
\* answer event_saved_workflow_failed
ReceiverMarkFailed(r) ==
  /\ rq[r].pc = "failed"
  /\ events' = updateEventStatus(rq[r].evt, "failed", NULL, "trigger failed")
  /\ rq' = [rq EXCEPT ![r] = [@ EXCEPT !.pc = "done",
                                       !.answers = Append(@, "event_saved_workflow_failed")]]
  /\ UNCHANGED receiverFrame

\* ====================================================== specifications
NoCounts(S) == [x \in S |-> 0]

\* an open row as startSla(leadId, slaType) inserts it at minute t
OpenRow(leadId, slaType, t) ==
  [lead_id |-> leadId, sla_type |-> slaType, started_at |-> t,
   deadline_at |-> t + SLA_DURATIONS(slaType), completed_at |-> NULL,
   breached |-> FALSE, notified |-> FALSE]

\* the tables of MaxSla rows that startSla calls at minute 0 leave behind
StartedTables ==
  [1..MaxSla -> {OpenRow(l, t, 0) : l \in Leads, t \in StartTypes}]

InitBase ==
  /\ webhook_logs = <<>>
  /\ hpc = [h \in Handlers |-> "idle"]
  /\ hkey = [h \in Handlers |-> 1]
  /\ calls = 0
  /\ accepted = NoCounts(Keys)
  /\ duplicate = NoCounts(Keys)
  /\ thrown = NoCounts(Keys)
  /\ dupAfterFail = [k \in Keys |-> FALSE]
  /\ cLast = NoCall
  /\ follow_up_executions = <<>>
  /\ dispatched = [i \in 1..MaxExec |-> <<>>]
  /\ follow_acts = [i \in 1..MaxExec |-> <<>>]
  /\ spc = [x \in Starters |-> "idle"]
  /\ sLead = [x \in Starters |-> "lead1"]
  /\ fpc = [w \in FollowWorkers |-> "idle"]
  /\ fBatch = [w \in FollowWorkers |-> <<>>]
  /\ fIdx = [w \in FollowWorkers |-> 1]
  /\ fNow = [w \in FollowWorkers |-> 0]
  /\ fCycles = 0
  /\ fOut = [w \in FollowWorkers |-> <<>>]
  /\ fDeadAtSelect = [w \in FollowWorkers |-> {}]
  /\ fRuns = [i \in 1..MaxExec |-> 0]
  /\ fFails = [i \in 1..MaxExec |-> 0]
  /\ cancelLast = [lead |-> "lead1", reason |-> "cancelled", updated |-> {}]
  /\ ipc = [h \in Handlers |-> "none"]
  /\ iphone = [h \in Handlers |-> NoPhone]
  /\ ilead = [h \in Handlers |-> 1]
  /\ leads = <<>>
  /\ lead_acts = <<>>
  /\ crm_deals = 0
  /\ notified = 0
  /\ ingested = NoCounts(Keys)
  /\ itried = <<>>
  /\ events = <<>>
  /\ rq = [r \in Requests |-> NoRequest]
  /\ bpc = [w \in BreachWorkers |-> "idle"]
  /\ bBatch = [w \in BreachWorkers |-> <<>>]
  /\ bIdx = [w \in BreachWorkers |-> 1]
  /\ bNow = [w \in BreachWorkers |-> 0]
  /\ epc = [w \in EscWorkers |-> "idle"]
  /\ eBatch = [w \in EscWorkers |-> <<>>]
  /\ eIdx = [w \in EscWorkers |-> 1]
  /\ eMin = [w \in EscWorkers |-> 0]
  /\ eHas = [w \in EscWorkers |-> [slack |-> FALSE, critical |-> FALSE]]
  /\ eFired = [w \in EscWorkers |-> {}]
  /\ eCycles = 0
  /\ eDoneAtSelect = [w \in EscWorkers |-> {}]

\* no row has been breached yet
NothingBreached ==
  /\ activities = [i \in 1..MaxSla |-> NoCounts(ActTypes)]
  /\ sent = [i \in 1..MaxSla |-> NoCounts(Channels)]
  /\ bCycles = 0
  /\ counted = NoCounts(1..MaxSla)

NoPure == [fn |-> "none", inp |-> NULL, out |-> NULL]

Init ==
  /\ InitBase /\ now = 0 /\ sla_events = <<>> /\ NothingBreached
  /\ pure = NoPure /\ mg = NoMerge

SlaInit ==
  /\ InitBase /\ now = 0 /\ sla_events \in StartedTables /\ NothingBreached
  /\ pure = NoPure /\ mg = NoMerge

\* the first clock step at which a response_5min row started at 0 is past its deadline
FirstBreachAt == SLA_DURATIONS("response_5min") + TickMin

\* the tables one checkSlaBreaches cycle at FirstBreachAt leaves behind when its
\* group messages went out: every row breached and notified, with its audit entry
BreachedTables ==
  {[i \in 1..MaxSla |-> [tab[i] EXCEPT !.breached = TRUE, !.notified = TRUE]] :
     tab \in {x \in StartedTables : \A i \in 1..MaxSla : x[i].deadline_at < FirstBreachAt}}

EscInit ==
  /\ InitBase
  /\ pure = NoPure /\ mg = NoMerge
  /\ now = FirstBreachAt
  /\ sla_events \in BreachedTables
  /\ activities = [i \in 1..MaxSla |-> [NoCounts(ActTypes) EXCEPT !["sla_breach"] = 1]]
  /\ sent = [i \in 1..MaxSla |->
       [NoCounts(Channels) EXCEPT !["sdr_group"] = 1]]
  /\ bCycles = 1
  /\ counted = [i \in 1..MaxSla |-> 1]

slaFrame == <<now, tableVars, breachVars, escVars, extVars>>

\* concurrent webhook handlers around the guard
GuardNext ==
  \/ \E h \in Handlers, k \in Keys : AdmitNew(h, k) /\ UNCHANGED slaFrame
  \/ \E h \in Handlers, k \in Keys : AdmitDuplicate(h, k) /\ UNCHANGED slaFrame
  \/ \E h \in Handlers, k \in Keys : AdmitStorageError(h, k) /\ UNCHANGED slaFrame
  \/ \E h \in Handlers : HandlerProcessed(h) /\ UNCHANGED slaFrame
  \/ \E h \in Handlers : HandlerFailed(h) /\ UNCHANGED slaFrame

GuardSpec == Init /\ [][GuardNext]_vars

\* what the clock and the callers of completeSla do whatever the workers do
SlaEnv ==
  \/ Tick
  \/ \E l \in Leads, t \in StartTypes : completeSla(l, t) /\ UNCHANGED extVars

BreachIdle == \A w \in BreachWorkers : bpc[w] = "idle"
EscIdle == \A w \in EscWorkers : epc[w] = "idle"

\* the steps of a checkSlaBreaches cycle after its select
BreachSteps(w) ==
  \/ CheckMark(w)
  \/ CheckAudit(w)
  \/ CheckNotifyOk(w)
  \/ CheckSetNotified(w)
  \/ CheckReturn(w)

\* the steps of a runEscalationCheck cycle after its select, nothing throwing
EscSteps(w) ==
  \/ EscRead(w)
  \/ EscSlackSendOk(w)
  \/ EscSlackLog(w)
  \/ EscCriticalAlertOk(w)
  \/ EscCriticalGroupOk(w)
  \/ EscCriticalLog(w)
  \/ EscNextRow(w)
  \/ EscReturn(w)

\* the awaits of the try block: the sends, and the logEscalation inserts
SendPoints == {"slackSend", "criticalAlert", "criticalGroup"}
LogPoints == {"slackLog", "criticalLog"}

\* overlapping checkSlaBreaches cycles (worker concurrency 5), sends may fail
BreachNext ==
  \/ SlaEnv
  \/ \E w \in BreachWorkers : CheckSelect(w)
  \/ \E w \in BreachWorkers : BreachSteps(w)
  \/ \E w \in BreachWorkers : CheckNotifyFail(w)

BreachSpec == SlaInit /\ [][BreachNext]_vars

\* overlapping runEscalationCheck cycles over rows already breached;
\* sends and record writes may fail
EscNext ==
  \/ SlaEnv
  \/ \E w \in EscWorkers : eCycles < MaxCompletionCycles /\ EscSelect(w)
  \/ \E w \in EscWorkers : EscSteps(w)
  \/ \E w \in EscWorkers, at \in SendPoints \cup LogPoints : EscThrow(w, at)

EscSpec == EscInit /\ [][EscNext]_vars

\* overlapping runEscalationCheck cycles, every send and every write succeeding
OverlapNext ==
  \/ SlaEnv
  \/ \E w \in EscWorkers : eCycles < MaxOverlapCycles /\ EscSelect(w)
  \/ \E w \in EscWorkers : EscSteps(w)

OverlapSpec == EscInit /\ [][OverlapNext]_vars

\* one runEscalationCheck cycle at a time, sends may fail, record writes succeed
SeqFailNext ==
  \/ SlaEnv
  \/ EscIdle /\ EscSelect("e1")
  \/ EscSteps("e1")
  \/ \E at \in SendPoints : EscThrow("e1", at)

SeqFailSpec == EscInit /\ [][SeqFailNext]_vars

\* one cycle at a time, every escalation send and every write succeeding
SeqNext ==
  \/ SlaEnv
  \/ BreachIdle /\ EscIdle /\ CheckSelect("b1")
  \/ BreachSteps("b1")
  \/ CheckNotifyFail("b1")
  \/ BreachIdle /\ EscIdle /\ EscSelect("e1")
  \/ EscSteps("e1")

SeqSpec == SlaInit /\ [][SeqNext]_vars

\* startSla and completeSla called in any order on an empty table
CommitNext ==
  \/ now < CommitHorizon /\ Tick
  \/ \E l \in CommitLeads, t \in CommitTypes : CallStart(l, t)
  \/ \E l \in CommitLeads, t \in CommitTypes : CallComplete(l, t)

CommitSpec == Init /\ [][CommitNext]_vars

\* webhook handlers: the guard (its insert succeeding or raising 23505), then
\* ingestLead, then the status mark; the Meta handler marks a failure, the
\* Google handler only logs it
IntakeNext ==
  \/ \E h \in Handlers, k \in Keys :
       /\ calls < MaxIntakeCalls
       /\ AdmitNew(h, k) /\ UNCHANGED <<ingestFrame, sla_events, intakeVars>>
  \/ \E h \in Handlers, k \in Keys :
       /\ calls < MaxIntakeCalls
       /\ AdmitDuplicate(h, k) /\ UNCHANGED <<ingestFrame, sla_events, intakeVars>>
  \/ \E h \in Handlers, raw \in RawPhones : IngestDedup(h, raw)
  \/ \E h \in Handlers : IngestMerge(h)
  \/ \E h \in Handlers : IngestInsert(h)
  \/ \E h \in Handlers : IngestAudit(h)
  \/ \E h \in Handlers : IngestSyncOk(h)
  \/ \E h \in Handlers : IngestSyncFail(h)
  \/ \E h \in Handlers : IngestStartSla(h)
  \/ \E h \in Handlers : IngestStartSlaFail(h)
  \/ \E h \in Handlers : IngestNotifyOk(h)
  \/ \E h \in Handlers : IngestNotifyFail(h)
  \/ \E h \in Handlers :
       /\ ipc[h] \in IngestReturned /\ HandlerProcessed(h)
       /\ IngestLeave(h)
       /\ UNCHANGED <<ingestFrame, sla_events, intakeRest>>
  \/ \E h \in Handlers :
       /\ ipc[h] \in IngestThrowPoints /\ HandlerFailed(h)
       /\ IngestLeave(h)
       /\ UNCHANGED <<ingestFrame, sla_events, intakeRest>>
  \/ \E h \in Handlers :
       /\ ipc[h] \in IngestThrowPoints /\ HandlerLogsOnly(h)
       /\ IngestLeave(h)
       /\ UNCHANGED <<ingestFrame, sla_events, intakeRest>>

IntakeSpec == Init /\ [][IntakeNext]_vars

FollowIdle == \A w \in FollowWorkers : fpc[w] = "idle"

\* the steps of a processDueFollowUps cycle after its select, nothing throwing
DueSteps(w) ==
  \/ DueStep(w)
  \/ DueSendOk(w)
  \/ DueLog(w)
  \/ DueAdvance(w)
  \/ DueReturn(w)

\* callers of startSequenceForLead and cancelSequencesForLead; starts may overlap
StartNext ==
  \/ now < FollowHorizon /\ Tick
  \/ \E x \in Starters, l \in FollowLeads : StartCheck(x, l)
  \/ \E x \in Starters : StartInsert(x)
  \/ \E l \in FollowLeads, r \in Reasons : CallCancel(l, r)

StartSpec == Init /\ [][StartNext]_vars

\* one start at a time, one processDueFollowUps cycle at a time, sends may
\* fail, cancellation at any moment
FollowNext ==
  \/ now < FollowHorizon /\ Tick
  \/ \E l \in FollowLeads : StartCheck("s1", l)
  \/ StartInsert("s1")
  \/ \E l \in FollowLeads : cancelSequencesForLead(l, "responded") /\ UNCHANGED cancelLast
  \/ FollowIdle /\ DueSelect("f1")
  \/ DueSteps("f1")
  \/ DueThrow("f1")

FollowSpec == Init /\ [][FollowNext]_vars

\* one processDueFollowUps cycle at a time over whatsapp and email sequences;
\* the send, the activities insert and the update may each fail
FollowFailNext ==
  \/ now < FollowHorizon /\ Tick
  \/ \E l \in {"lead1", EmailLead} : StartCheck("s1", l)
  \/ StartInsert("s1")
  \/ FollowIdle /\ DueSelect("f1")
  \/ DueSteps("f1")
  \/ DueThrow("f1")
  \/ DueThrowAfterSend("f1")

FollowFailSpec == Init /\ [][FollowFailNext]_vars

\* overlapping processDueFollowUps cycles (worker concurrency 5), nothing fails
FollowOverlapNext ==
  \/ now < FollowHorizon /\ Tick
  \/ \E l \in FollowLeads : StartCheck("s1", l)
  \/ StartInsert("s1")
  \/ \E w \in FollowWorkers : DueSelect(w)
  \/ \E w \in FollowWorkers : DueSteps(w)

FollowOverlapSpec == Init /\ [][FollowOverlapNext]_vars

\* mergeLead: a stored lead and two duplicate contacts merged into it
MergeInit ==
  /\ InitBase /\ now = 0 /\ sla_events = <<>> /\ NothingBreached /\ pure = NoPure
  /\ \E l \in LeadColumns : mg = [NoMerge EXCEPT !.lead = l]

MergeNext ==
  \/ \E x \in Mergers, i \in MergeInputs : MergeSelect(x, i)
  \/ \E x \in Mergers : MergeUpdate(x)

MergeSpec == MergeInit /\ [][MergeNext]_vars

\* the event receiver: concurrent requests to POST /events
ReceiverNext ==
  \/ \E r \in Requests, k \in EventKeys, p \in Payloads : ReceiverSave(r, k, p)
  \/ \E r \in Requests : ReceiverTriggerOk(r)
  \/ \E r \in Requests : ReceiverTriggerFail(r)
  \/ \E r \in Requests : ReceiverMarkProcessing(r)
  \/ \E r \in Requests : ReceiverMarkFailed(r)

ReceiverSpec == Init /\ [][ReceiverNext]_vars

\* phone normalization: any input, normalized once
PhoneInit ==
  /\ InitBase /\ now = 0 /\ sla_events = <<>> /\ NothingBreached
  /\ \E i \in PhoneInputs : pure = [fn |-> "phone", inp |-> i, out |-> NULL]
  /\ mg = NoMerge

PhoneNext == ApplyNormalizePhone

PhoneSpec == PhoneInit /\ [][PhoneNext]_vars

\* lead scoring: any input, scored once
ScoreInit ==
  /\ InitBase /\ now = 0 /\ sla_events = <<>> /\ NothingBreached
  /\ \E i \in ScoreInputs : pure = [fn |-> "input", inp |-> i, out |-> NULL]
  /\ mg = NoMerge

ScoreNext == ScoreNewLead

ScoreSpec == ScoreInit /\ [][ScoreNext]_vars

\* ============================================================= claims
EscTypes == {"escalation_slack", "escalation_critical"}
EscChannels == {"slack_warning", "slack_critical", "ops_group"}
EscBusy(w) == epc[w] \notin {"idle", "return"}

\* C1: for every idempotency key at most one isNewWebhookEvent call returns true
\* and webhook_logs holds at most one row with the key, whatever the handlers'
\* interleaving and also after the row was marked failed; a call returns true
\* only by inserting the row.
C1_AtMostOneAccepted ==
  \A k \in Keys :
    /\ accepted[k] <= 1
    /\ Cardinality(RowsWithKey(k)) <= 1
    /\ accepted[k] = Cardinality(RowsWithKey(k))
    /\ duplicate[k] > 0 => accepted[k] = 1

\* a call returned false for a key whose row had been marked failed
C1_Witness ==
  \E k \in Keys : dupAfterFail[k] /\ accepted[k] = 1 /\ duplicate[k] >= 1

\* C2: with sends succeeding, sequential checkSlaBreaches and runEscalationCheck
\* cycles deliver each level's notification at most once and write at most one
\* record per level, and a cycle that has processed a row 30 or more minutes past
\* its deadline leaves exactly one of each.
C2_ExactlyOncePerLevel ==
  /\ \A i \in SlaIds :
       /\ \A t \in EscTypes : activities[i][t] <= 1
       /\ \A c \in EscChannels : sent[i][c] <= 1
  /\ \A w \in EscWorkers :
       epc[w] = "done" /\ eMin[w] >= 30 =>
         /\ \A t \in EscTypes : activities[EscCur(w)][t] = 1
         /\ \A c \in EscChannels : sent[EscCur(w)][c] = 1

\* a later cycle has processed the row, found both records and fired nothing
C2_Witness ==
  \E w \in EscWorkers :
    /\ epc[w] = "done" /\ eMin[w] >= 30 /\ eFired[w] = {}
    /\ eHas[w].slack /\ eHas[w].critical
    /\ \A c \in EscChannels : sent[EscCur(w)][c] = 1

\* C3: when checkSlaBreaches cycles overlap, a commitment gets at most one
\* breach audit entry and at most one breach notification.
C3_OneBreachUnderOverlap ==
  \A i \in SlaIds : activities[i]["sla_breach"] <= 1 /\ sent[i]["sdr_group"] <= 1

\* C4: across sequential checkSlaBreaches cycles a commitment is counted in at
\* most one return value, has at most one breach audit entry and one breach
\* notification; a breached one has exactly one of the first two, and a cycle
\* that selected while it was open and past its deadline leaves it breached.
C4_BreachedExactlyOnce ==
  /\ \A i \in SlaIds :
       /\ counted[i] <= 1
       /\ activities[i]["sla_breach"] <= 1
       /\ sent[i]["sdr_group"] <= 1
       /\ BreachIdle /\ sla_events[i].breached =>
            counted[i] = 1 /\ activities[i]["sla_breach"] = 1
       /\ BreachIdle /\ ~sla_events[i].breached =>
            counted[i] = 0 /\ activities[i]["sla_breach"] = 0
  /\ \A w \in BreachWorkers : \A i \in SlaIds :
       /\ bpc[w] = "return"
       /\ sla_events[i].deadline_at < bNow[w]
       /\ sla_events[i].completed_at = NULL \/ sla_events[i].completed_at > bNow[w]
       => sla_events[i].breached

\* a cycle that ran after the breach selected nothing and returns 0
C4_Witness ==
  \E w \in BreachWorkers : \E i \in SlaIds :
    /\ bpc[w] = "return" /\ bBatch[w] = <<>>
    /\ sla_events[i].breached /\ sla_events[i].completed_at = NULL
    /\ counted[i] = 1 /\ activities[i]["sla_breach"] = 1

\* C5: a step that sets breached = true belongs to a checkSlaBreaches cycle whose
\* select ran after the row's deadline and not after its completion.
C5_BreachOnlyPastDeadlineAndOpen ==
  [][\A i \in SlaIds :
       ~sla_events[i].breached /\ sla_events'[i].breached =>
         \E w \in BreachWorkers :
           /\ bpc[w] = "mark" /\ bBatch[w][bIdx[w]].id = i
           /\ sla_events[i].deadline_at < bNow[w]
           /\ \/ sla_events[i].completed_at = NULL
              \/ sla_events[i].completed_at >= bNow[w]]_vars

\* a cycle has just marked a row breached that it selected past its deadline
C5_Witness ==
  \E w \in BreachWorkers :
    /\ bpc[w] = "audit"
    /\ sla_events[bBatch[w][bIdx[w]].id].breached
    /\ sla_events[bBatch[w][bIdx[w]].id].deadline_at < bNow[w]

\* C6: when runEscalationCheck cycles overlap, at most one escalation record
\* exists per commitment and level and each level's notification goes out at
\* most once.
C6_OneRecordUnderOverlap ==
  \A i \in SlaIds :
    /\ \A t \in EscTypes : activities[i][t] <= 1
    /\ \A c \in EscChannels : sent[i][c] <= 1

\* C7: per commitment and level at most one notification is ever delivered,
\* also when a part of the critical send fails.
C7_AtMostOneDelivered ==
  \A i \in SlaIds : \A c \in EscChannels : sent[i][c] <= 1

\* C8: no escalation record exists without a completed send of its level; every
\* cycle that reads a row whose threshold is reached and whose record is missing
\* attempts the send; and between cycles every completed send has its record.
C8_NoRecordWithoutSend ==
  \A i \in SlaIds :
    /\ activities[i]["escalation_slack"] <= sent[i]["slack_warning"]
    /\ activities[i]["escalation_critical"] <= sent[i]["ops_group"]
    /\ sent[i]["ops_group"] <= sent[i]["slack_critical"]
    /\ EscIdle => /\ activities[i]["escalation_slack"] = sent[i]["slack_warning"]
                  /\ activities[i]["escalation_critical"] = sent[i]["ops_group"]

C8_AttemptWhenMissing ==
  \A w \in EscWorkers :
    /\ epc[w] = "read" /\ epc'[w] # "read" =>
         LET i == EscCur(w)
             m == now - sla_events[i].deadline_at
             slackDue == m >= 15 /\ activities[i]["escalation_slack"] = 0
             criticalDue == m >= 30 /\ activities[i]["escalation_critical"] = 0
         IN /\ slackDue => epc'[w] = "slackSend"
            /\ criticalDue /\ ~slackDue => epc'[w] = "criticalAlert"
    /\ epc[w] = "slackLog" /\ activities' # activities =>
         (eMin[w] >= 30 /\ ~eHas[w].critical => epc'[w] = "criticalAlert")

C8_FailedSendRetried ==
  []C8_NoRecordWithoutSend /\ [][C8_AttemptWhenMissing]_vars

\* the critical alert went out, the group message failed, no record was written,
\* and a later cycle is attempting the level again
C8_Witness ==
  \E w \in EscWorkers :
    /\ epc[w] = "criticalAlert"
    /\ sent[EscCur(w)]["slack_critical"] >= 1
    /\ activities[EscCur(w)]["escalation_critical"] = 0

\* C9: a cycle that has processed a row fired every level whose threshold was
\* reached and whose record was missing when it read the row, and it starts the
\* critical level only after the Slack level was fired or found recorded.
C9_FiresEveryMissingLevel ==
  \A w \in EscWorkers :
    /\ epc[w] = "done" /\ eMin[w] >= 15 /\ ~eHas[w].slack =>
         "escalation_slack" \in eFired[w]
    /\ epc[w] = "done" /\ eMin[w] >= 30 /\ ~eHas[w].critical =>
         "escalation_critical" \in eFired[w]
    /\ epc[w] \in {"criticalAlert", "criticalGroup", "criticalLog"} /\ ~eHas[w].slack =>
         "escalation_slack" \in eFired[w]

\* a row first read 30 or more minutes past its deadline with no record has had
\* both levels fired in that cycle
C9_Witness ==
  \E w \in EscWorkers :
    /\ epc[w] = "done" /\ eMin[w] >= 30
    /\ ~eHas[w].slack /\ ~eHas[w].critical
    /\ eFired[w] = EscTypes
    /\ \A c \in EscChannels : sent[EscCur(w)][c] = 1

\* C10: completeSla sets the completion time of a breached open row, and every
\* notification and escalation record of a row comes from a cycle whose select
\* ran while the row was not completed.
C10_CompletionAccepted ==
  \A l \in Leads, t \in SlaTypes :
    completeSla(l, t) =>
      \A i \in SlaIds :
        /\ sla_events[i].lead_id = l /\ sla_events[i].sla_type = t
        /\ sla_events[i].breached /\ sla_events[i].completed_at = NULL
        => sla_events'[i].completed_at = now

C10_NoEscalationAfterwards ==
  \A i \in SlaIds :
    (\E t \in EscTypes : activities'[i][t] # activities[i][t])
    \/ (\E c \in EscChannels : sent'[i][c] # sent[i][c])
    => \E w \in EscWorkers : EscBusy(w) /\ EscCur(w) = i /\ i \notin eDoneAtSelect[w]

C10_CompletionStopsEscalation ==
  [][C10_CompletionAccepted /\ C10_NoEscalationAfterwards]_vars

\* a cycle selected after a breached row was completed and has nothing to do
C10_Witness ==
  \E w \in EscWorkers : \E i \in SlaIds :
    /\ epc[w] = "return" /\ eBatch[w] = <<>>
    /\ i \in eDoneAtSelect[w]
    /\ sla_events[i].breached /\ sla_events[i].completed_at # NULL

\* C11: at every moment at most one row of sla_events per lead and type has
\* completed_at null; a startSla call made while one is open adds no second one.
C11_OneOpenPerLeadAndType ==
  \A l \in CommitLeads, t \in CommitTypes : Cardinality(CompleteMatches(l, t)) <= 1

\* C12: a completeSla call sets completed_at on the newest open row of the lead
\* and type only and leaves every other row as it was.
C12_OnlyNewestCompleted ==
  [][\A l \in CommitLeads, t \in CommitTypes :
       CallComplete(l, t) => sla_events' = CompleteNewest(l, t)]_vars

\* C13: completeSla can always be called; a call that finds no open row of the
\* lead and type changes no row, and no call changes a row that already has a
\* completion time or adds or removes a row.
C13_CallChangesOnlyOpenRows ==
  \A l \in CommitLeads, t \in CommitTypes :
    CallComplete(l, t) =>
      /\ CompleteMatches(l, t) = {} => sla_events' = sla_events
      /\ Len(sla_events') = Len(sla_events)
      /\ \A i \in SlaIds :
           sla_events[i].completed_at # NULL => sla_events'[i] = sla_events[i]

C13_RepeatIsNoop ==
  /\ [](\A l \in CommitLeads, t \in CommitTypes : ENABLED CallComplete(l, t))
  /\ [][C13_CallChangesOnlyOpenRows]_vars

\* a second call, made minutes after the one that completed the row, found
\* nothing open and the row still carries the earlier completion time
C13_Witness ==
  /\ cLast.op = "complete" /\ cLast.open = {}
  /\ \E i \in SlaIds :
       /\ sla_events[i].lead_id = cLast.lead /\ sla_events[i].sla_type = cLast.type
       /\ sla_events[i].completed_at # NULL /\ sla_events[i].completed_at < now

\* executions a cycle has selected and not yet finished with
FollowPending(w) == {fBatch[w][j].id : j \in fIdx[w]..Len(fBatch[w])}
RowState(r) == <<r.status, r.current_step, r.next_run_at>>

\* C14: at every moment a lead has at most one follow_up_executions row with
\* status active, whatever the interleaving of startSequenceForLead calls.
C14_OneActivePerLead ==
  \A l \in FollowLeads : Cardinality(ActiveOf(l)) <= 1

C16_CancelledNeverTouched ==
  [][\A i \in ExecIds :
       /\ follow_up_executions[i].status \in Reasons
       /\ \/ RowState(follow_up_executions'[i]) # RowState(follow_up_executions[i])
          \/ dispatched'[i] # dispatched[i]
       => \E w \in FollowWorkers :
            /\ fpc[w] \in {"step", "send", "log", "advance"}
            /\ FollowCur(w).id = i /\ i \notin fDeadAtSelect[w]]_vars

\* a cycle selected after the cancellation, at a minute when the execution's
\* next_run_at had passed, and selected nothing
C16_Witness ==
  \E w \in FollowWorkers : \E i \in ExecIds :
    /\ fpc[w] = "return" /\ fBatch[w] = <<>>
    /\ i \in fDeadAtSelect[w]
    /\ follow_up_executions[i].status \in Reasons
    /\ follow_up_executions[i].next_run_at <= fNow[w]
    /\ dispatched[i] = <<>>

\* C17: when processDueFollowUps cycles overlap, no step's message is dispatched
\* twice for an execution.
C17_AdvancedOnce ==
  \A i \in ExecIds : \A a, b \in 1..Len(dispatched[i]) :
    a # b => dispatched[i][a] # dispatched[i][b]

\* C18: a failed render or dispatch changes no execution and delivers nothing,
\* the loop goes on with the next selected execution, a cycle returns only after
\* handling every execution it selected, and an execution it failed on is, unless
\* cancelled meanwhile, still active at the selected step and still due.
C18_FailureStep ==
  \A w \in FollowWorkers :
    DueThrow(w) =>
      /\ follow_up_executions' = follow_up_executions
      /\ dispatched' = dispatched
      /\ fpc'[w] = IF fIdx[w] < Len(fBatch[w]) THEN "step" ELSE "return"

C18_CycleHandlesAll ==
  \A w \in FollowWorkers :
    fpc[w] = "return" =>
      /\ Len(fOut[w]) = Len(fBatch[w])
      /\ \A j \in 1..Len(fOut[w]) :
           LET r == follow_up_executions[fBatch[w][j].id]
           IN fOut[w][j] = "failed" /\ r.status = "active"
              => r.current_step = fBatch[w][j].current_step /\ r.next_run_at <= fNow[w]

C18_FailureIsolated ==
  []C18_CycleHandlesAll /\ [][C18_FailureStep]_vars

\* a cycle failed on the first execution it selected and sent the second one's step
C18_Witness ==
  \E w \in FollowWorkers :
    /\ fpc[w] = "return" /\ fOut[w] = <<"failed", "sent">>
    /\ follow_up_executions[fBatch[w][1].id].status = "active"
    /\ dispatched[fBatch[w][1].id] = <<>>
    /\ dispatched[fBatch[w][2].id] = <<1>>

\* C19: cancelSequencesForLead gives every active execution of the lead the
\* given status and leaves its lead, step and next_run_at alone; it changes no
\* other row, adds none, and with no active execution it changes nothing.
C19_CancelStep ==
  \A l \in FollowLeads, r \in Reasons :
    CallCancel(l, r) =>
      /\ Len(follow_up_executions') = Len(follow_up_executions)
      /\ \A i \in ExecIds :
           IF i \in ActiveOf(l)
             THEN follow_up_executions'[i] =
                    [follow_up_executions[i] EXCEPT !.status = r, !.completed_at = now]
             ELSE follow_up_executions'[i] = follow_up_executions[i]
      /\ ActiveOf(l) = {} => follow_up_executions' = follow_up_executions
      /\ dispatched' = dispatched

C19_CancelOnlyActive == [][C19_CancelStep]_vars

\* a second call, with the other reason and minutes later, updated nothing and
\* the row keeps the first call's status and time
C19_Witness ==
  /\ cancelLast.updated = {}
  /\ \E i \in ExecIds :
       /\ follow_up_executions[i].lead_id = cancelLast.lead
       /\ follow_up_executions[i].status \in Reasons \ {cancelLast.reason}
       /\ follow_up_executions[i].completed_at < now

IntakeEffects == <<leads, lead_acts, sla_events, crm_deals, notified>>

\* C20: a handler whose isNewWebhookEvent call reports a duplicate returns at
\* once: the step creates no lead, SLA row, activity, deal or notification and
\* leaves webhook_logs alone; every ingestLead run and every such effect belongs
\* to a delivery that was admitted as new.
C20_DuplicateStep ==
  /\ \A h \in Handlers, k \in Keys :
       AdmitDuplicate(h, k) =>
         /\ IntakeEffects' = IntakeEffects
         /\ webhook_logs' = webhook_logs
         /\ ingested' = ingested
         /\ hpc'[h] = "idle" /\ ipc'[h] = "none"
  /\ IntakeEffects' # IntakeEffects =>
       \E h \in Handlers : hpc[h] = "process" /\ ingested[hkey[h]] = 1

C20_OnlyAdmittedIngested ==
  /\ \A k \in Keys : ingested[k] <= accepted[k]
  /\ \A h \in Handlers : hpc[h] = "process" => accepted[hkey[h]] = 1

C20_DuplicateDoesNothing ==
  []C20_OnlyAdmittedIngested /\ [][C20_DuplicateStep]_vars

\* two deliveries of one event: the first was ingested and marked processed, the
\* second was reported duplicate, and there is one lead, one SLA row, one deal
\* and one notification
C20_Witness ==
  \E k \in Keys :
    /\ calls = 2 /\ accepted[k] = 1 /\ duplicate[k] = 1 /\ ingested[k] = 1
    /\ \A i \in RowsWithKey(k) : webhook_logs[i].status = "processed"
    /\ Len(leads) = 1 /\ Len(sla_events) = 1 /\ Len(lead_acts) = 1
    /\ crm_deals = 1 /\ notified = 1

\* ------------------------------------------------------------------- C30
\* the lead of the scenario: source meta_ads, stage acabamentos, ticket 150000
\* and no other qualification field
C30_Scenario ==
  /\ pure.fn = "scoreLead"
  /\ pure.inp.source = "meta_ads"
  /\ pure.inp.project_stage = "acabamentos"
  /\ pure.inp.estimated_ticket = 150000
  /\ \A f \in {"email", "client_type", "project_type", "location",
               "estimated_deadline"} : pure.inp[f] = Absent

\* C30 as stated: the lead of the scenario is created with a score of at
\* least 80
C30_ScoreAtLeast80 == C30_Scenario => pure.out >= 80

\* C30 amended: the lead of the scenario is created with the score 54
\* (source 10, stage 20, ticket 20, completeness 4)
C30_ScoreIs54 == C30_Scenario => pure.out = 54

C30_Witness == C30_Scenario /\ pure.out = 54

\* ------------------------------------------------------------------- C22
\* an ingest that is past its insert or found the row to merge into
IngestResolved(h) ==
  ipc[h] \in {"merge", "merged", "audit", "crm", "sla", "notify", "done"}

C22_OneRowPerPhone ==
  /\ \A p \in Phones : Cardinality(LeadsWithPhone(p)) <= 1
  /\ \A h \in Handlers : IngestResolved(h) => Cardinality(LeadsWithPhone(iphone[h])) = 1

\* C22: under any interleaving of ingests every phone holds at most one lead
\* row, exactly one once an ingest of it has resolved, and no step removes a
\* lead row or changes its phone
C22_OneLeadPerPhone ==
  [][/\ C22_OneRowPerPhone'
     /\ Len(leads') >= Len(leads)
     /\ \A i \in 1..Len(leads) : leads'[i].phone = leads[i].phone]_vars

\* two concurrent ingests of one unseen phone: both found no row, one has
\* inserted, the other is at its insert
C22_Witness ==
  \E h, g \in Handlers :
    /\ h # g /\ iphone[h] = iphone[g]
    /\ ipc[h] = "insert" /\ ipc[g] = "audit"
    /\ Cardinality(LeadsWithPhone(iphone[h])) = 1

\* ------------------------------------------------------------------- C24
\* C24: a raw phone that normalizes to the empty string makes ingest fail
\* before any write: no lead row holds the empty phone, so no commitment and
\* no audit entry belongs to such a lead either
C24_EmptyPhoneRejected ==
  /\ \A i \in 1..Len(leads) : leads[i].phone # <<>>
  /\ \A i \in 1..Len(lead_acts) : leads[lead_acts[i].lead_id].phone # <<>>
  /\ \A i \in 1..Len(sla_events) :
       \A n \in 1..Len(leads) :
         sla_events[i].lead_id = LeadId(n) => leads[n].phone # <<>>

\* ------------------------------------------------------------------- C25
\* the response_5min commitments of lead row n
FirstResponseRows(n) ==
  {i \in 1..Len(sla_events) :
     sla_events[i].lead_id = LeadId(n) /\ sla_events[i].sla_type = "response_5min"}

\* C25: an ingest that found no lead with the phone and returned has created
\* the lead, has called startSla once, leaving exactly one response_5min
\* commitment (none only where that call itself failed) with deadline = start
\* + 5 minutes, no completion, not breached and not notified, and has
\* attempted the new-lead notification exactly once
C25_NewLeadCommitment ==
  \A h \in Handlers :
    ipc[h] = "done" =>
      LET n == ilead[h] IN
      /\ n \in 1..Len(leads) /\ leads[n].phone = iphone[h]
      /\ itried[n].sla.tried = 1
      /\ Cardinality(FirstResponseRows(n)) = itried[n].sla.ok
      /\ \A i \in FirstResponseRows(n) :
           /\ sla_events[i].deadline_at = sla_events[i].started_at + 5
           /\ sla_events[i].completed_at = NULL
           /\ ~sla_events[i].breached /\ ~sla_events[i].notified
      /\ itried[n].notify.tried = 1

C25_Witness ==
  \E h \in Handlers :
    /\ ipc[h] = "done"
    /\ Cardinality(FirstResponseRows(ilead[h])) = 1
    /\ itried[ilead[h]].notify.tried = 1

\* ------------------------------------------------------------------- C26
\* what ingestLead has written so far: it only grows
C26_NothingRolledBack ==
  /\ Len(leads') >= Len(leads) /\ Len(lead_acts') >= Len(lead_acts)
  /\ Len(sla_events') >= Len(sla_events) /\ crm_deals' >= crm_deals
  /\ \A i \in 1..Len(leads) : leads'[i].phone = leads[i].phone
  /\ \A i \in 1..Len(lead_acts) : lead_acts'[i] = lead_acts[i]
  /\ \A i \in 1..Len(sla_events) : sla_events'[i] = sla_events[i]

\* C26: whichever of the CRM sync, the commitment start and the notification
\* fail, every best-effort step is attempted once, the ingest of a new lead
\* returns with the lead row and its audit entry in place, the handler marks
\* the event processed, and no step undoes an earlier write
C26_BestEffortNotFatal ==
  [][/\ C26_NothingRolledBack
     /\ \A h \in Handlers :
          /\ ipc'[h] = "done" =>
               /\ leads'[ilead'[h]].phone = iphone'[h]
               /\ \E i \in 1..Len(lead_acts') :
                    lead_acts'[i] = [lead_id |-> ilead'[h], type |-> "sla_start"]
               /\ \A s \in {"crm", "sla", "notify"} : itried'[ilead'[h]][s].tried = 1
          /\ ipc[h] = "done" /\ ipc'[h] # "done" =>
               \E i \in 1..Len(webhook_logs') :
                 /\ webhook_logs'[i].key = hkey[h]
                 /\ webhook_logs'[i].status = "processed"]_vars

\* all three best-effort steps failed and the ingest returned
C26_Witness ==
  \E h \in Handlers :
    /\ ipc[h] = "done"
    /\ \A s \in {"crm", "sla", "notify"} :
         itried[ilead[h]][s].tried = 1 /\ itried[ilead[h]][s].ok = 0
    /\ leads[ilead[h]].phone = iphone[h]

\* ------------------------------------------------------------------- C27
\* C27: when the handler is done with an event whose ingest created a new
\* lead, an active execution of that lead at step 0 is in follow_up_executions
C27_NewLeadStartsSequence ==
  [][\A h \in Handlers :
       ipc[h] = "done" /\ ipc'[h] # "done" =>
         \E i \in 1..Len(follow_up_executions') :
           /\ follow_up_executions'[i].lead_id = LeadId(ilead[h])
           /\ follow_up_executions'[i].current_step = 0
           /\ follow_up_executions'[i].status = "active"]_vars

\* ------------------------------------------------------------------- C21
\* C21: a handler that is done with an admitted event, whether ingestLead
\* returned or raised, leaves the event's row processed or failed, never
\* received
C21_AdmittedLeavesReceived ==
  [][\A h \in Handlers :
       hpc[h] = "process" /\ hpc'[h] = "idle" =>
         \A i \in 1..Len(webhook_logs') :
           webhook_logs'[i].key = hkey[h] =>
             webhook_logs'[i].status \in {"processed", "failed"}]_vars

\* ------------------------------------------------------------------- C28
\* C28: a call of isNewWebhookEvent that meets the uniqueness violation
\* returns false without raising, and a call that meets another storage
\* failure raises without reporting the event as accepted; in both cases no
\* row is written and the handler that called goes on to no later step
C28_AdmitOutcomes ==
  [][\A k \in Keys :
       /\ duplicate'[k] # duplicate[k] =>
            /\ UniqueViolation(k)
            /\ thrown' = thrown /\ accepted' = accepted
            /\ webhook_logs' = webhook_logs /\ hpc' = hpc
       /\ thrown'[k] # thrown[k] =>
            /\ accepted' = accepted /\ duplicate' = duplicate
            /\ webhook_logs' = webhook_logs /\ hpc' = hpc]_vars

\* both outcomes have happened: a duplicate was refused and a storage error
\* was raised, and no handler is processing
C28_Witness ==
  /\ \E k \in Keys : duplicate[k] > 0
  /\ \E k \in Keys : thrown[k] > 0 /\ accepted[k] = 0
  /\ \A h \in Handlers : hpc[h] = "idle"

\* ------------------------------------------------------------------- C23
\* C23: no step changes a column of the stored lead that is not null, and a
\* column that changes takes the non-null value of the input being merged
C23_MergeNeverOverwrites ==
  [][\A f \in MergeFields :
       /\ ~IsNull(f, mg.lead[f]) => mg'.lead[f] = mg.lead[f]
       /\ mg'.lead[f] # mg.lead[f] =>
            \E x \in Mergers :
              /\ mg.m[x].pc = "update" /\ mg'.m[x].pc = "done"
              /\ mg'.lead[f] = mg.m[x].input[f] /\ ~IsNull(f, mg.m[x].input[f])]_vars

\* ------------------------------------------------------------------- C29
\* C29: a request whose workflow trigger was attempted had its event row in
\* the table by then; a request is answered only when it is over and then
\* exactly once, with duplicate (a row of the key exists and nothing was
\* triggered), accepted (its row is processing and carries the execution id)
\* or event_saved_workflow_failed (its row is failed, carries the error and
\* still holds the payload)
C29_SavedBeforeTriggerAndAnswered ==
  \A r \in Requests :
    LET q == rq[r] IN
    /\ q.pc \in {"processing", "failed"} => q.rowAtTrig
    /\ q.pc # "done" => q.answers = <<>>
    /\ q.pc = "done" =>
         /\ Len(q.answers) = 1
         /\ \/ /\ q.answers[1] = "duplicate"
               /\ q.evt = NULL /\ EventsWithKey(q.key) # {}
            \/ /\ q.answers[1] = "accepted"
               /\ q.rowAtTrig
               /\ events[q.evt].status = "processing"
               /\ events[q.evt].exec = q.exec /\ q.exec # NULL
               /\ events[q.evt].payload = q.payload
            \/ /\ q.answers[1] = "event_saved_workflow_failed"
               /\ q.rowAtTrig
               /\ events[q.evt].status = "failed"
               /\ events[q.evt].error # "none"
               /\ events[q.evt].payload = q.payload

\* the three answers have been given: a failed trigger, a successful one and
\* a duplicate of one of the two
C29_Witness ==
  \E r1, r2, r3 \in Requests :
    /\ rq[r1].pc = "done" /\ rq[r1].answers = <<"event_saved_workflow_failed">>
    /\ rq[r2].pc = "done" /\ rq[r2].answers = <<"accepted">>
    /\ rq[r3].pc = "done" /\ rq[r3].answers = <<"duplicate">>
    /\ events[rq[r1].evt].payload = rq[r1].payload

\* ------------------------------------------------------------------- C31
\* the reference: the digits of a phone, left to right
RECURSIVE RefDigits(_)
RefDigits(phone) ==
  IF phone = <<>> THEN <<>>
  ELSE (IF Head(phone) \in PhoneDigits THEN <<Head(phone)>> ELSE <<>>)
         \o RefDigits(Tail(phone))

\* the reference: 55 in front of 10 or 11 digits
RefCountry(d) == IF Len(d) = 10 \/ Len(d) = 11 THEN <<"5", "5">> \o d ELSE d

\* the reference: 9 after the area code of 55 + area code + 8 digits whose
\* first is not 0
RefNinth(d) ==
  IF Len(d) = 12 /\ d[1] = "5" /\ d[2] = "5" /\ d[5] # "0"
    THEN <<d[1], d[2], d[3], d[4], "9">> \o [i \in 1..8 |-> d[i + 4]]
    ELSE d

C31_Examples ==
  /\ pure.inp = <<"1", "1", "9", "9", "9", "8", "8", "7", "7", "6", "6">> => pure.out = <<"5", "5", "1", "1", "9", "9", "9", "8", "8", "7", "7", "6", "6">>
  /\ pure.inp = <<"1", "1", "9", "8", "7", "6", "5", "4", "3", "2">> => pure.out = <<"5", "5", "1", "1", "9", "9", "8", "7", "6", "5", "4", "3", "2">>
  /\ pure.inp = <<"+", "5", "5", " ", "(", "1", "1", ")", " ", "9", "9", "9", "8", "8", "-", "7", "7", "6", "6">> => pure.out = <<"5", "5", "1", "1", "9", "9", "9", "8", "8", "7", "7", "6", "6">>

\* C31: normalizePhone returns what the reference gives, and on 11999887766,
\* 1198765432 and +55 (11) 99988-7766 the phones the spec names
C31_NormalizeMatchesReference ==
  pure.fn = "normalizePhone" =>
    /\ pure.out = RefNinth(RefCountry(RefDigits(pure.inp)))
    /\ C31_Examples

\* the legacy number 1198765432 has been normalized: country code prepended
\* and ninth digit inserted
C31_Witness ==
  /\ pure.fn = "normalizePhone"
  /\ pure.inp = <<"1", "1", "9", "8", "7", "6", "5", "4", "3", "2">>
  /\ pure.out = <<"5", "5", "1", "1", "9", "9", "8", "7", "6", "5", "4", "3", "2">>

\* ------------------------------------------------------------------- C32
\* C32: whatever the input, scoreLead returns a whole number from 0 to 100,
\* the sum of the points of the five rules cut off at 100, where the source
\* gives at most 25 points, the client type, the stage and the ticket at most
\* 20 each and the completeness at most 15
C32_ScoreInRange ==
  pure.fn = "scoreLead" =>
    LET i == pure.inp
        sum == SourceScore(i.source) + ClientTypeScore(i) + ProjectStageScore(i)
                 + TicketScore(i) + CompletenessScore(i)
    IN /\ pure.out \in 0..100
       /\ pure.out = (IF sum > 100 THEN 100 ELSE sum)
       /\ SourceScore(i.source) \in 0..25
       /\ ClientTypeScore(i) \in 0..20
       /\ ProjectStageScore(i) \in 0..20
       /\ TicketScore(i) \in 0..20
       /\ CompletenessScore(i) \in 0..15

\* the best lead there is: every rule gives its maximum and the score is 100
C32_Witness ==
  /\ pure.fn = "scoreLead"
  /\ pure.inp.source = "architect" /\ pure.inp.client_type = "architect"
  /\ pure.inp.project_stage = "acabamentos" /\ pure.inp.estimated_ticket = 150000
  /\ Filled(pure.inp) = 7
  /\ pure.out = 100

\* ------------------------------------------------------------------- C33
\* C33: an execution that is completed, cancelled or responded keeps its
\* status and its current_step in every later step, whatever runs meanwhile
C33_TerminalIsFinal ==
  [][\A i \in ExecIds :
       follow_up_executions[i].status \in {"completed", "cancelled", "responded"} =>
         /\ follow_up_executions'[i].status = follow_up_executions[i].status
         /\ follow_up_executions'[i].current_step =
              follow_up_executions[i].current_step]_vars

\* ------------------------------------------------------------------- C34
\* the requests that carried the key and are past saveEvent
RequestsOfKey(k) == {r \in Requests : rq[r].pc # "idle" /\ rq[r].key = k}

\* C34: of the requests that carried one idempotency key exactly one got the
\* event id; the table holds one row of the key; that request calls
\* triggerWorkflow once, and every other one is answered duplicate without
\* calling it
C34_OneSaverPerKey ==
  \A k \in EventKeys :
    RequestsOfKey(k) # {} =>
      /\ Cardinality({r \in RequestsOfKey(k) : rq[r].evt # NULL}) = 1
      /\ Cardinality({i \in 1..Len(events) : events[i].key = k}) = 1
      /\ \A r \in RequestsOfKey(k) :
           IF rq[r].evt = NULL
             THEN rq[r].trig = 0 /\ rq[r].pc = "done" /\ rq[r].answers = <<"duplicate">>
             ELSE /\ rq[r].trig = (IF rq[r].pc = "trigger" THEN 0 ELSE 1)
                  /\ events[rq[r].evt].key = k

\* three requests carried one key while the first was still at work: one
\* saved and triggered, two were answered duplicate
C34_Witness ==
  \E k \in EventKeys :
    /\ RequestsOfKey(k) = Requests
    /\ \A r \in Requests : rq[r].pc = "done"
    /\ Cardinality({r \in Requests : rq[r].answers = <<"duplicate">>}) = 2
    /\ Cardinality({r \in Requests : rq[r].trig = 1}) = 1

\* ------------------------------------------------------------------- C35
\* C35: a Slack warning is sent and an escalation_slack record written for a
\* commitment only 15 minutes or more after its deadline, a critical alert, an
\* ops-group message and an escalation_critical record only 30 minutes or
\* more after it; before the 15th minute a breached commitment has none
C35_StepRespectsThresholds ==
  \A i \in SlaIds :
    /\ \/ sent'[i]["slack_warning"] # sent[i]["slack_warning"]
       \/ activities'[i]["escalation_slack"] # activities[i]["escalation_slack"]
       => now - sla_events[i].deadline_at >= 15
    /\ \/ sent'[i]["slack_critical"] # sent[i]["slack_critical"]
       \/ sent'[i]["ops_group"] # sent[i]["ops_group"]
       \/ activities'[i]["escalation_critical"] # activities[i]["escalation_critical"]
       => now - sla_events[i].deadline_at >= 30

C35_NothingBeforeThreshold ==
  \A i \in SlaIds :
    /\ now - sla_events[i].deadline_at < 15 =>
         /\ activities[i]["escalation_slack"] = 0 /\ sent[i]["slack_warning"] = 0
    /\ now - sla_events[i].deadline_at < 30 =>
         /\ activities[i]["escalation_critical"] = 0
         /\ sent[i]["slack_critical"] = 0 /\ sent[i]["ops_group"] = 0

C35_EscalatesAtThresholds ==
  []C35_NothingBeforeThreshold /\ [][C35_StepRespectsThresholds]_vars

\* a cycle read a breached commitment 5 minutes past its deadline and fired
\* nothing
C35_Witness ==
  \E w \in EscWorkers :
    /\ epc[w] = "done" /\ eMin[w] \in 0..14 /\ eFired[w] = {}
    /\ sla_events[EscCur(w)].breached
    /\ \A c \in EscChannels : sent[EscCur(w)][c] = 0
    /\ \A t \in EscTypes : activities[EscCur(w)][t] = 0

\* ------------------------------------------------------------------- C36
\* the steps handler h takes inside ingestLead once the dedup select found a
\* lead: the merge, and the return
C36_MergeEffects(h) ==
  /\ ipc'[h] = "merged"
  /\ sla_events' = sla_events
  /\ crm_deals' = crm_deals
  /\ notified' = notified
  /\ itried' = itried
  /\ Len(leads') = Len(leads)
  /\ \A c \in {"phone", "funnel", "stage", "score"} :
       leads'[ilead[h]][c] = leads[ilead[h]][c]
  /\ lead_acts' = Append(lead_acts, [lead_id |-> ilead[h], type |-> "note"])

C36_MergeStep ==
  \A h \in Handlers :
    /\ (ipc[h] = "none" /\ ipc'[h] = "merge") =>
         /\ ilead'[h] \in 1..Len(leads)
         /\ leads[ilead'[h]].phone = iphone'[h]
         /\ UNCHANGED <<sla_events, crm_deals, notified, itried, leads, lead_acts>>
    /\ (ipc[h] = "merge" /\ ipc'[h] \notin {"merge", "none"}) => C36_MergeEffects(h)
    /\ (ipc[h] = "merged" /\ ipc'[h] # "merged") =>
         /\ ipc'[h] = "none"
         /\ UNCHANGED <<sla_events, crm_deals, notified, itried, leads, lead_acts>>

\* C36: an ingest that resolves to an existing lead starts no commitment,
\* syncs no deal and sends no new-lead notification, leaves the lead's
\* normalized phone, funnel, stage and score as they were, writes one note
\* activity and returns isNew false
C36_MergeLeavesLead == [][C36_MergeStep]_vars

\* a handler has returned from the merge of a lead whose insert-path steps
\* all ran once
C36_Witness ==
  \E h \in Handlers :
    /\ ipc[h] = "merged"
    /\ Len(SelectSeq(lead_acts, LAMBDA a : a.lead_id = ilead[h] /\ a.type = "note")) = 1
    /\ itried[ilead[h]].notify.tried = 1
    /\ leads[ilead[h]].score = scoreLead(LeadForm)
    /\ leads[ilead[h]].funnel = "end_client"

\* ------------------------------------------------------------------- C37
\* C37: a commitment that has a completion time is not afterwards marked
\* breached, nor given a breach audit entry or a breach notification, also
\* when completeSla runs between a cycle's select and its update
C37_CompletedStep ==
  \A i \in SlaIds :
    sla_events[i].completed_at # NULL =>
      /\ sla_events'[i].breached = sla_events[i].breached
      /\ activities'[i]["sla_breach"] = activities[i]["sla_breach"]
      /\ sent'[i]["sdr_group"] = sent[i]["sdr_group"]

C37_CompletedNeverBreached == [][C37_CompletedStep]_vars

\* ------------------------------------------------------------------- C38
\* the ids a cycle's select returned
C38_Selected(batch) == {batch[j].id : j \in 1..Len(batch)}

\* a checkSlaBreaches cycle that starts while no other cycle runs selects
\* every row that is breached, uncompleted and still without notification
C38_SelectStep ==
  \A w \in BreachWorkers :
    (BreachIdle /\ bpc'[w] # "idle") =>
      \A i \in SlaIds :
        (/\ sla_events[i].breached
         /\ ~sla_events[i].notified
         /\ sla_events[i].completed_at = NULL) => i \in C38_Selected(bBatch'[w])

\* C38: a breached, uncompleted commitment eventually has notified = true:
\* after a failed breach notification a later checkSlaBreaches cycle picks
\* the commitment up again
C38_FailedNotifyRetried == [][C38_SelectStep]_vars

\* ------------------------------------------------------------------- C39
\* C39: with one processDueFollowUps cycle at a time, no step of an execution
\* is dispatched twice, also when the activities insert or the update fails
\* after the message was sent
C39_StepDispatchedOnce ==
  \A i \in ExecIds :
    \A order \in 1..Len(follow_up_steps(follow_up_executions[i].lead_id)) :
      Cardinality({j \in 1..Len(dispatched[i]) : dispatched[i][j] = order}) <= 1

\* ------------------------------------------------------------------- C40
\* a step that changes an execution's current_step changes it to a step
\* whose message has been sent
C40_AdvanceStep ==
  \A i \in ExecIds :
    follow_up_executions'[i].current_step # follow_up_executions[i].current_step =>
      \E j \in 1..Len(dispatched[i]) :
        dispatched[i][j] = follow_up_executions'[i].current_step

\* C40: processDueFollowUps advances an execution past a step, or completes
\* it on its last step, only if the step's message was dispatched through the
\* step's channel, whatsapp or email
C40_AdvanceOnlyAfterDispatch == [][C40_AdvanceStep]_vars

====
